---- MODULE Spec2Model ----
(***************************************************************************)
(* Deep Research orchestrator of ai-project-planner:                       *)
(*   POST /api/deep-research  ->  DeepResearchService.conductDeepResearch  *)
(*   clarify -> brief -> supervisor loop / sub-agent runs -> report.       *)
(* The language model and the search aggregator are external: every call   *)
(* to them is a nondeterministic choice over the outcomes they can have.   *)
(* Strings the control flow never inspects are kept as short tokens;       *)
(* the query is a sequence of characters because the code trims, splits    *)
(* and searches it.  The conversations (supervisorMessages, agentMessages) *)
(* only feed the prompts of later LM calls, whose answers are already      *)
(* arbitrary, and are not kept.                                            *)
(***************************************************************************)
EXTENDS Integers, Sequences, FiniteSets, TLC

\* ------------------------------------------------------------------ bounds
\* largest config.max_iterations explored
MaxIter == 2
\* largest number of tool invocations written in one supervisor response
MaxInvs == 2
\* deepest nesting of sub-agent runs explored
MaxDepth == 2
\* ------------------------------------------------------- program constants
maxAgentIterations == 5
MinQueryLength == 3

\* ------------------------------------------------------------- the queries
Q_AI     == <<"A", "I">>
Q_padded == <<" ", "a", "i", " ">>
Q_xyz    == <<"x", "y", "z">>
Q_rain   == <<"r", "a", "i", "n", " ", "m", "a", "p", "s">>

\* (caller, query, max_iterations) of the invocations explored: the HTTP
\* route, and direct calls of the service as the test scripts make them.
\* The route's own config fixes max_iterations = 6; the model explores the
\* route with the smallest cap and the service with caps up to MaxIter.
Requests ==
    {<<"route", q, 1>> : q \in {Q_AI, Q_padded, Q_xyz}}
    \cup {<<"direct", Q_rain, MaxIter>>, <<"direct", Q_AI, 1>>}

IsSpace(c) == c = " "

RECURSIVE TrimStart(_)
TrimStart(s) ==
    IF s # <<>> /\ IsSpace(Head(s)) THEN TrimStart(Tail(s)) ELSE s

RECURSIVE TrimEnd(_)
TrimEnd(s) ==
    IF s # <<>> /\ IsSpace(s[Len(s)]) THEN TrimEnd(SubSeq(s, 1, Len(s) - 1)) ELSE s

\* String.prototype.trim
Trim(s) == TrimEnd(TrimStart(s))

LowerChar(c) ==
    CASE c = "A" -> "a"
      [] c = "I" -> "i"
      [] c = "R" -> "r"
      [] OTHER   -> c

\* String.prototype.toLowerCase
ToLowerCase(s) == [i \in 1..Len(s) |-> LowerChar(s[i])]

\* String.prototype.includes
Includes(s, sub) ==
    \E i \in 0..(Len(s) - Len(sub)) : SubSeq(s, i + 1, i + Len(sub)) = sub

\* s.split(/\s+/): the maximal runs of non-space characters, with an empty
\* first (last) piece when s starts (ends) with white space
RECURSIVE SplitWs(_, _, _)
SplitWs(s, cur, inGap) ==
    IF s = <<>> THEN <<cur>>
    ELSE IF IsSpace(Head(s))
         THEN IF inGap THEN SplitWs(Tail(s), cur, TRUE)
                       ELSE <<cur>> \o SplitWs(Tail(s), <<>>, TRUE)
         ELSE SplitWs(Tail(s), Append(cur, Head(s)), FALSE)

Split(s) == SplitWs(s, <<>>, FALSE)

W_the  == <<"t", "h", "e">>
W_and  == <<"a", "n", "d">>
W_with == <<"w", "i", "t", "h">>
W_for  == <<"f", "o", "r">>
W_are  == <<"a", "r", "e">>
W_this == <<"t", "h", "i", "s">>
W_that == <<"t", "h", "a", "t">>
StopWords == {W_the, W_and, W_with, W_for, W_are, W_this, W_that}

S_ai == <<"a", "i">>
S_artificial_intelligence ==
    <<"a","r","t","i","f","i","c","i","a","l"," ",
      "i","n","t","e","l","l","i","g","e","n","c","e">>
S_deep_learning == <<"d","e","e","p"," ","l","e","a","r","n","i","n","g">>
S_machine_learning ==
    <<"m","a","c","h","i","n","e"," ","l","e","a","r","n","i","n","g">>

Slice(s, n) == SubSeq(s, 1, IF Len(s) < n THEN Len(s) ELSE n)

RECURSIVE JoinChars(_)
\* the string spelled by a sequence of characters
JoinChars(w) == IF w = <<>> THEN "" ELSE Head(w) \o JoinChars(Tail(w))

RECURSIVE JoinWords(_)
\* words.join(' ')
JoinWords(ws) ==
    IF ws = <<>> THEN ""
    ELSE IF Len(ws) = 1 THEN JoinChars(Head(ws))
    ELSE JoinChars(Head(ws)) \o " " \o JoinWords(Tail(ws))

\* variant: no topic is generated
generateForcedResearchTopics_None(originalQuery) == <<>>

\* generateForcedResearchTopics
generateForcedResearchTopics(originalQuery) ==
    LET lower  == ToLowerCase(originalQuery)
        words  == SelectSeq(SelectSeq(Split(lower), LAMBDA w : Len(w) > 3),
                            LAMBDA w : w \notin StopWords)
        t1 == IF Len(words) > 0
              THEN <<"Current developments in " \o JoinWords(Slice(words, 3))>>
              ELSE <<>>
        t2 == IF Includes(lower, S_ai) \/ Includes(lower, S_artificial_intelligence)
              THEN <<"AI implementation techniques and best practices">>
              ELSE <<>>
        t3 == IF Includes(lower, S_deep_learning) \/ Includes(lower, S_machine_learning)
              THEN <<"Latest deep learning research and applications">>
              ELSE <<>>
        t4 == <<"Practical applications and future trends in "
                \o JoinWords(Slice(words, 2))>>
    IN  Slice(t1 \o t2 \o t3 \o t4, 3)

\* ------------------------------------------------------- tool-call protocol
\* the names dispatched by the switch of executeToolCalls
ToolCatalog ==
    {"web_search", "scholar_search", "news_search", "doc_search",
     "think", "conduct_research", "research_complete"}

\* a name outside the catalog that an LM may write after USE_TOOL: (the
\* search tool of RESEARCH_TOOLS, which the switch does not know)
UnknownTool == "tavily_search"

\* toolName.includes('search'), evaluated on each name ("conduct_research"
\* and "research_complete" contain "search" inside "research")
IncludesSearch(toolName) ==
    toolName \in {"web_search", "scholar_search", "news_search", "doc_search",
                  "conduct_research", "research_complete", "tavily_search"}

\* the parameter a quoted string argument is bound to
ParamName(toolName) ==
    IF IncludesSearch(toolName) THEN "query"
    ELSE IF toolName = "conduct_research" THEN "research_topic"
    ELSE IF toolName = "research_complete" THEN "summary"
    ELSE "thoughts"

\* the parameter the tool's dispatch reads
RequiredParam(toolName) ==
    CASE toolName = "conduct_research"  -> "research_topic"
      [] toolName = "research_complete" -> "summary"
      [] toolName = "think"             -> "thoughts"
      [] OTHER                          -> "query"

Params == {"query", "research_topic", "summary", "thoughts"}
NoArgs == [p \in Params |-> "undefined"]

\* The argument text of an invocation is one of: "quoted" ("some text"),
\* "keyed" (a JSON body that names the tool's own parameter and does not
\* both start and end with a quote), "unquoted" (free words), "none" ().
\* parseToolArguments of a keyed body yields the named parameter, of free
\* words yields {query: words}.
parseToolArguments(toolName, argKind) ==
    IF argKind = "keyed"
    THEN [NoArgs EXCEPT ![RequiredParam(toolName)] = "value"]
    ELSE [NoArgs EXCEPT !["query"] = "value"]

ParseArgs(toolName, argKind) ==
    IF argKind = "none" THEN NoArgs
    ELSE IF argKind = "quoted"
         THEN [NoArgs EXCEPT ![ParamName(toolName)] = "value"]
         ELSE parseToolArguments(toolName, argKind)

\* names matched by the second pattern,
\* (\w+_search|conduct_research|research_complete|think)
Pattern2Names == ToolCatalog \cup {UnknownTool}
\* names matched by the third pattern
Pattern3Names == ToolCatalog

Invoke(syntax, name, argKind) == [syntax |-> syntax, name |-> name, arg |-> argKind]

RECURSIVE NumberCalls(_, _)
NumberCalls(matches, from) ==
    IF matches = <<>> THEN <<>>
    ELSE <<[id   |-> [prefix |-> "call_", n |-> from],
            name |-> Head(matches).name,
            args |-> ParseArgs(Head(matches).name, Head(matches).arg)]>>
         \o NumberCalls(Tail(matches), from + 1)

RECURSIVE SplitOn(_, _, _)
\* s.split(sep) for a separator of one character: the pieces between the
\* separators, empty pieces included
SplitOn(s, sep, cur) ==
    IF s = <<>> THEN <<cur>>
    ELSE IF Head(s) = sep
         THEN <<cur>> \o SplitOn(Tail(s), sep, <<>>)
         ELSE SplitOn(Tail(s), sep, Append(cur, Head(s)))

S_research == <<"r", "e", "s", "e", "a", "r", "c", "h">>
S_search   == <<"s", "e", "a", "r", "c", "h">>

\* the words extractQueryFromContent leaves out
FilterWords ==
    {<<"r", "e", "s", "e", "a", "r", "c", "h">>,
     <<"s", "e", "a", "r", "c", "h">>,
     <<"f", "i", "n", "d">>,
     <<"l", "o", "o", "k">>,
     <<"i", "n", "t", "o">>,
     <<"a", "b", "o", "u", "t">>,
     <<"t", "h", "i", "s">>,
     <<"t", "h", "a", "t">>,
     <<"w", "i", "l", "l">>,
     <<"s", "h", "o", "u", "l", "d">>}

\* content.toLowerCase().includes('research') || ...includes('search')
MentionsResearch(text) ==
    Includes(ToLowerCase(text), S_research) \/ Includes(ToLowerCase(text), S_search)

RECURSIVE FirstQuery(_)
\* the for loop of extractQueryFromContent over the lines
FirstQuery(lines) ==
    IF lines = <<>> THEN "null"
    ELSE LET line  == Head(lines)
             words == SelectSeq(SplitOn(line, " ", <<>>),
                                LAMBDA w : Len(w) > 3
                                           /\ ToLowerCase(w) \notin FilterWords)
         IN  IF MentionsResearch(line) /\ Len(words) > 0
             THEN JoinWords(Slice(words, 3))
             ELSE FirstQuery(Tail(lines))

\* extractQueryFromContent: the first three words of more than 3 letters,
\* outside the filter list, of the first line that mentions research or
\* search and has such a word; null when there is none
extractQueryFromContent(text) == FirstQuery(SplitOn(text, "\n", <<>>))

\* parseToolCalls: the three patterns are run one after the other over the
\* whole text, each appending its matches; then the forced web_search.
\* A response is [text, invs]: the invocations written in it, and for a
\* response without invocation the kind of text it is.
parseToolCalls(content) ==
    LET m1 == SelectSeq(content.invs, LAMBDA v : v.syntax = "USE_TOOL")
        m2 == SelectSeq(content.invs,
                        LAMBDA v : v.syntax \in {"USE_TOOL", "bare"}
                                   /\ v.name \in Pattern2Names)
        m3 == SelectSeq(content.invs,
                        LAMBDA v : v.syntax = "colon" /\ v.name \in Pattern3Names)
        toolCalls == NumberCalls(m1 \o m2 \o m3, 1)
    IN  IF toolCalls = <<>> /\ MentionsResearch(content.text)
           /\ extractQueryFromContent(content.text) # "null"
        THEN <<[id   |-> [prefix |-> "call_forced_", n |-> 1],
                name |-> "web_search",
                args |-> [NoArgs EXCEPT
                             !["query"] = extractQueryFromContent(content.text)]]>>
        ELSE toolCalls

\* texts of an LM answer around its invocations
T_empty         == <<>>
T_plain         == <<"A", "l", "l", " ", "d", "o", "n", "e">>
T_mention_only  == <<"I", " ", "w", "i", "l", "l", " ", "r", "e", "s", "e", "a", "r", "c", "h", " ", "i", "t">>
T_mention_query == <<"R", "e", "s", "e", "a", "r", "c", "h", " ", "r", "a", "i", "n", " ", "m", "a", "p", "s">>
T_other_line    == <<"r", "a", "i", "n", " ", "m", "a", "p", "s", "\n", "s", "e", "a", "r", "c", "h">>
Texts == {T_empty, T_plain, T_mention_only, T_mention_query, T_other_line}

\* responses without any invocation
TextOnly == {[text |-> t, invs |-> <<>>] : t \in Texts}

OneInv(v) == [text |-> T_plain, invs |-> <<v>>]

\* the invocations a supervisor response is built from
SupervisorCore ==
    {Invoke("bare", "conduct_research", "quoted"),
     Invoke("bare", "research_complete", "quoted")}

SupervisorSingles ==
    SupervisorCore \cup
    {Invoke("bare", "think", "quoted"),
     Invoke("colon", "think", "unquoted"),
     Invoke("bare", "web_search", "quoted"),
     Invoke("USE_TOOL", "scholar_search", "quoted"),
     Invoke("bare", "news_search", "none"),
     Invoke("bare", "doc_search", "quoted"),
     Invoke("USE_TOOL", UnknownTool, "quoted")}

RECURSIVE SeqsOver(_, _)
\* the sequences of exactly n elements of S
SeqsOver(S, n) ==
    IF n = 0 THEN {<<>>}
    ELSE {Append(s, x) : s \in SeqsOver(S, n - 1), x \in S}

SupervisorContents ==
    TextOnly
    \cup {OneInv(v) : v \in SupervisorSingles}
    \cup {[text |-> T_plain, invs |-> s] :
             s \in UNION {SeqsOver(SupervisorCore, n) : n \in 2..MaxInvs}}

\* what a sub-agent's LM may answer; it delegates (conduct_research) only
\* in its first answer and below the nesting cap
AgentSingles ==
    {Invoke("bare", "web_search", "quoted"),
     Invoke("bare", "scholar_search", "quoted"),
     Invoke("bare", "news_search", "quoted"),
     Invoke("bare", "think", "quoted")}

AgentContents(delegates) ==
    TextOnly
    \cup {OneInv(v) : v \in AgentSingles}
    \cup IF delegates
         THEN {OneInv(Invoke("bare", "conduct_research", "quoted"))}
         ELSE {}

\* the text of an LM answer as the code sees it
ContentString(content) ==
    IF content.text = T_empty /\ content.invs = <<>> THEN "" ELSE "LM text"

\* formatSearchResults
LowerType(type) ==
    CASE type = "Web"     -> "web"
      [] type = "Scholar" -> "scholar"
      [] type = "News"    -> "news"
      [] OTHER            -> "documentation"

formatSearchResults(results, type) ==
    IF results = "empty"
    THEN "No " \o LowerType(type) \o " search results found."
    ELSE "## " \o type \o " Search Results"

\* ============================================ UnifiedSearchService
\* Strings are sequences of characters.  A URL is kept with the parts the
\* URL parser finds in it; valid is FALSE when `new URL(url)` throws.
Url(origin, pathname, search, hash) ==
    [valid |-> TRUE, href |-> origin \o pathname \o search \o hash,
     origin |-> origin, pathname |-> pathname, search |-> search]

RawUrl(href) ==
    [valid |-> FALSE, href |-> href, origin |-> <<>>, pathname |-> <<>>,
     search |-> <<>>]

\* replace(/\/$/, '')
StripSlash(s) ==
    IF s # <<>> /\ s[Len(s)] = "/" THEN SubSeq(s, 1, Len(s) - 1) ELSE s

\* URL.pathname: "/" when the URL has no path
Pathname(url) == IF url.pathname = <<>> THEN <<"/">> ELSE url.pathname

\* URL.origin has the host in lower case; the fragment is left out
normalizeUrl(url) ==
    IF url.valid
    THEN ToLowerCase(url.origin) \o StripSlash(Pathname(url)) \o url.search
    ELSE StripSlash(ToLowerCase(url.href))

O_a    == <<"h", "t", "t", "p", ":", "/", "/", "a", ".", "i", "o">>
O_A    == <<"h", "t", "t", "p", ":", "/", "/", "A", ".", "i", "o">>
U_a    == Url(O_a, <<"/", "p">>, <<>>, <<>>)
U_a2   == Url(O_A, <<"/", "p", "/">>, <<>>, <<"#", "x">>)
U_b    == Url(O_a, <<>>, <<"?", "q">>, <<>>)
U_raw  == RawUrl(<<"A", ".", "i", "o", "/", "p", "/">>)

\* relevance scores and weights are exact fractions num/den (the code
\* computes in doubles; rounding is not modelled)
Frac(n, d) == [num |-> n, den |-> d]
FracLess(a, b) == a.num * b.den < b.num * a.den
FracEq(a, b) == a.num * b.den = b.num * a.den
FracAdd(a, b) ==
    IF a.den = b.den THEN Frac(a.num + b.num, a.den)
    ELSE Frac(a.num * b.den + b.num * a.den, a.den * b.den)
FracMul(a, b) == Frac(a.num * b.num, a.den * b.den)
FracDiv(a, b) == Frac(a.num * b.den, a.den * b.num)
Zero == Frac(0, 10)
One  == Frac(10, 10)
Half == Frac(5, 10)

\* x || d, for a number x: d when x is 0 (or missing)
OrElse(x, d) == IF x.num # 0 THEN x ELSE d

NoMetadata == [sourceCount |-> 0, sources |-> <<>>, merged |-> FALSE]

\* a SearchResult as an adapter returns it; weight 0 stands for no weight
SearchResult(url, tenths, snippet) ==
    [url |-> url, relevanceScore |-> Frac(tenths, 10), snippet |-> snippet,
     source |-> <<"adapter">>, multiple |-> FALSE, weight |-> Zero,
     metadata |-> NoMetadata]

R_a   == SearchResult(U_a, 6, <<"a", "b">>)
R_a2  == SearchResult(U_a2, 1, <<"a", "b", "c">>)
R_b   == SearchResult(U_b, 5, <<"a">>)
R_raw == SearchResult(U_raw, 0, <<>>)
\* two more results for the page of R_a: a high score without snippet, a
\* low score with a short snippet
R_a9  == SearchResult(U_a, 9, <<>>)
R_a1  == SearchResult(U_a, 1, <<"a">>)

\* what the adapter of a source can find
ResultPool(source) ==
    IF source = "google" THEN {R_a, R_b, R_raw} ELSE {R_a, R_a2, R_b}

\* defaultWeights, for the sources of the model
defaultWeights(source) ==
    CASE source = "google"     -> Frac(12, 10)
      [] source = "duckduckgo" -> Frac(10, 10)
      [] source = "tavily"     -> Frac(11, 10)
      [] OTHER                 -> Zero

\* options.sources, and the services the constructor has registered (no
\* TAVILY_API_KEY)
Sources == <<"google", "tavily", "duckduckgo">>
searchServices == {"google", "duckduckgo", "context7"}

\* variant: the requested sources are taken as they are
Available_Unfiltered(sources) == sources

\* sources.filter(source => this.searchServices.has(source))
Available(sources) == SelectSeq(sources, LAMBDA source : source \in searchServices)

\* the available sources of a search over Sources
availableSources == SelectSeq(Sources, LAMBDA source : source \in searchServices)

RECURSIVE Flat(_)
\* Array.prototype.flat
Flat(lists) == IF lists = <<>> THEN <<>> ELSE Head(lists) \o Flat(Tail(lists))

\* the comparator's key: score * weight for mergeResults, the score for
\* weightedCombine; `|| 0` leaves a number as it is
SortKey(r, byWeight) ==
    IF byWeight THEN FracMul(r.relevanceScore, OrElse(r.weight, One))
    ELSE r.relevanceScore

RECURSIVE InsertDesc(_, _, _)
\* x goes in front of the first element whose key is smaller than its own
InsertDesc(sorted, x, byWeight) ==
    IF sorted = <<>> THEN <<x>>
    ELSE IF FracLess(SortKey(Head(sorted), byWeight), SortKey(x, byWeight))
         THEN <<x>> \o sorted
         ELSE <<Head(sorted)>> \o InsertDesc(Tail(sorted), x, byWeight)

RECURSIVE SortDesc(_, _)
\* Array.prototype.sort with the comparator keyB - keyA: descending, stable
SortDesc(results, byWeight) ==
    IF results = <<>> THEN <<>>
    ELSE InsertDesc(SortDesc(SubSeq(results, 1, Len(results) - 1), byWeight),
                    results[Len(results)], byWeight)

mergeResults(results) == SortDesc(results, TRUE)

Max(S) == IF S = {} THEN 0 ELSE CHOOSE x \in S : \A y \in S : y <= x

RECURSIVE Round(_, _)
\* the entries at index i of the result sets, in the order of the sets
Round(resultSets, i) ==
    IF resultSets = <<>> THEN <<>>
    ELSE (IF i <= Len(Head(resultSets)) THEN <<Head(resultSets)[i]>> ELSE <<>>)
         \o Round(Tail(resultSets), i)

RECURSIVE Rounds(_, _, _)
Rounds(resultSets, i, maxLength) ==
    IF i > maxLength THEN <<>>
    ELSE Round(resultSets, i) \o Rounds(resultSets, i + 1, maxLength)

interleaveResults(resultSets) ==
    Rounds(resultSets, 1,
           Max({Len(resultSets[k]) : k \in 1..Len(resultSets)}))

RECURSIVE UrlKeys(_, _)
\* the keys of urlGroups, in insertion order
UrlKeys(results, seen) ==
    IF results = <<>> THEN seen
    ELSE LET k == normalizeUrl(Head(results).url)
         IN  UrlKeys(Tail(results),
                     IF \E i \in 1..Len(seen) : seen[i] = k THEN seen
                     ELSE Append(seen, k))

UrlGroup(results, k) == SelectSeq(results, LAMBDA r : normalizeUrl(r.url) = k)

RECURSIVE BestResult(_, _)
\* the first member with the longest snippet
BestResult(group, bestResult) ==
    IF group = <<>> THEN bestResult
    ELSE BestResult(Tail(group),
                    IF Head(group).snippet # <<>>
                       /\ Len(Head(group).snippet) > Len(bestResult.snippet)
                    THEN Head(group) ELSE bestResult)

RECURSIVE TotalScore(_)
\* totalScore: a score of 0 counts as 0.5
TotalScore(group) ==
    IF group = <<>> THEN Frac(0, 100)
    ELSE FracAdd(FracMul(OrElse(Head(group).relevanceScore, Half),
                         OrElse(Head(group).weight, One)),
                 TotalScore(Tail(group)))

RECURSIVE TotalWeight(_)
TotalWeight(group) ==
    IF group = <<>> THEN Zero
    ELSE FracAdd(OrElse(Head(group).weight, One), TotalWeight(Tail(group)))

SourcesOf(group) == Flat([i \in 1..Len(group) |-> group[i].source])

\* one entry per group of urlGroups
CombineGroup(group) ==
    LET bestResult == BestResult(group, group[1])
        finalScore == IF TotalWeight(group).num > 0
                      THEN FracDiv(TotalScore(group), TotalWeight(group))
                      ELSE Zero
    IN  [bestResult EXCEPT
           !.relevanceScore = finalScore,
           !.source = IF Len(group) > 1 THEN SourcesOf(group) ELSE bestResult.source,
           !.multiple = Len(group) > 1,
           !.metadata = [bestResult.metadata EXCEPT
                           !.sourceCount = Len(group),
                           !.sources = SourcesOf(group)]]

\* the groups are left in the order of urlGroups
weightedCombine_Unsorted(results) ==
    LET keys == UrlKeys(results, <<>>)
    IN  [i \in 1..Len(keys) |-> CombineGroup(UrlGroup(results, keys[i]))]

weightedCombine(results) ==
    LET keys == UrlKeys(results, <<>>)
    IN  SortDesc([i \in 1..Len(keys) |-> CombineGroup(UrlGroup(results, keys[i]))],
                 FALSE)

deduplicateResults_KeepsAll(results) == results

RECURSIVE Deduplicate(_, _)
Deduplicate(results, deduplicated) ==
    IF results = <<>> THEN deduplicated
    ELSE LET result == Head(results)
             normalizedUrl == normalizeUrl(result.url)
             found == {i \in 1..Len(deduplicated) :
                         normalizeUrl(deduplicated[i].url) = normalizedUrl}
         IN  IF found = {}
             THEN Deduplicate(Tail(results), Append(deduplicated, result))
             ELSE LET existingIndex == CHOOSE i \in found : \A j \in found : i <= j
                      existing == deduplicated[existingIndex]
                  IN  IF FracLess(existing.relevanceScore, result.relevanceScore)
                         \/ (result.snippet # <<>>
                             /\ Len(result.snippet) > Len(existing.snippet))
                      THEN Deduplicate(Tail(results),
                             [deduplicated EXCEPT ![existingIndex] =
                                [result EXCEPT !.metadata =
                                   [sourceCount |->
                                      IF result.metadata.sourceCount # 0
                                      THEN result.metadata.sourceCount
                                      ELSE existing.metadata.sourceCount,
                                    sources |->
                                      IF result.metadata.sourceCount # 0
                                      THEN result.metadata.sources
                                      ELSE existing.metadata.sources,
                                    merged |-> TRUE]]])
                      ELSE Deduplicate(Tail(results), deduplicated)

\* variant: only the first repeated entry is dropped
deduplicateResults_OnePerPass(results) ==
    LET repeated == {j \in 1..Len(results) :
                       \E i \in 1..(j - 1) :
                          normalizeUrl(results[i].url) = normalizeUrl(results[j].url)}
        d == CHOOSE j \in repeated : \A k \in repeated : j <= k
    IN  IF repeated = {} THEN results
        ELSE SubSeq(results, 1, d - 1) \o SubSeq(results, d + 1, Len(results))

deduplicateResults(results) == Deduplicate(results, <<>>)

MaxList == 2

\* what the search of a source's adapter can resolve with
AdapterLists ==
    [source \in searchServices |->
        UNION {SeqsOver(ResultPool(source), n) : n \in 0..MaxList}]

Pending == [status |-> "pending", results |-> <<>>]

\* `weights[source] || 1.0` and the source tag, put on every result
Tagged(source, results) ==
    [i \in 1..Len(results) |->
        [results[i] EXCEPT !.source = <<source>>,
                           !.weight = OrElse(defaultWeights(source), One)]]

\* a failure of the adapter is passed on
SourceSearch_NoCatch(source, call) ==
    [rejected |-> call.status = "rejected",
     results  |-> Tagged(source, call.results)]

\* one element of searchPromises: the adapter's results with source and
\* weight, [] when the adapter throws
SourceSearch(source, call) ==
    [rejected |-> FALSE,
     results  |-> IF call.status = "rejected" THEN <<>>
                  ELSE Tagged(source, call.results)]

\* the values are taken in the order in which the promises settled
PromiseAll_CompletionOrder(calls, order) ==
    [k \in 1..Len(order) |-> SourceSearch(availableSources[order[k]], calls[order[k]])]

\* Promise.all: the values in the order of searchPromises
PromiseAll(calls, order) ==
    [i \in 1..Len(calls) |-> SourceSearch(availableSources[i], calls[i])]

CombineResults(combineStrategy, allResults) ==
    CASE combineStrategy = "merge"      -> mergeResults(Flat(allResults))
      [] combineStrategy = "interleave" -> interleaveResults(allResults)
      [] OTHER                          -> weightedCombine(Flat(allResults))

\* search, from the point where every promise of searchPromises has settled
SearchOutcome(options, calls, order) ==
    LET settled == PromiseAll(calls, order)
        allResults == [i \in 1..Len(settled) |-> settled[i].results]
        combinedResults == CombineResults(options.combineStrategy, allResults)
        maxResults == IF options.maxResults # 0 THEN options.maxResults ELSE 20
    IN  IF Len(Available(options.sources)) = 0
        THEN [threw |-> FALSE, results |-> <<>>]
        ELSE IF \E i \in 1..Len(settled) : settled[i].rejected
        THEN [threw |-> TRUE, results |-> <<>>]
        ELSE [threw |-> FALSE,
              results |-> Slice(IF options.deduplicate
                                THEN deduplicateResults(combinedResults)
                                ELSE combinedResults, maxResults)]

SearchOptions ==
    [sources : {Sources, <<"tavily">>, <<>>},
     combineStrategy : {"merge", "interleave", "weighted"},
     deduplicate : BOOLEAN,
     maxResults : {0, 2}]

NoSearch ==
    [options |-> [sources |-> <<>>, combineStrategy |-> "none",
                  deduplicate |-> FALSE,
                  maxResults |-> 0],
     calls |-> <<>>, order |-> <<>>, returned |-> FALSE, threw |-> FALSE,
     results |-> <<>>]

\* ------------------------------- deduplicateResults and normalizeUrl alone
\* what deduplicateResults is given: results with their source and weight
DedupPool ==
    {Tagged("google", <<r>>)[1] : r \in ResultPool("google") \cup {R_a9}}
    \cup {Tagged("duckduckgo", <<r>>)[1] : r \in ResultPool("duckduckgo") \cup {R_a1}}

DedupInputs == UNION {SeqsOver(DedupPool, n) : n \in 0..(MaxList + 1)}

NoDedup == [xs |-> <<>>, pass |-> 0, once |-> <<>>, twice |-> <<>>]

MaxSlashes == 2

S_http == <<"h", "t", "t", "p", ":", "/", "/">>

StartsWith(s, prefix) ==
    Len(s) >= Len(prefix) /\ SubSeq(s, 1, Len(prefix)) = prefix

\* the length of the longest prefix of s without a character of stops
SpanLen(s, stops) ==
    LET at == {i \in 1..Len(s) : s[i] \in stops}
    IN  IF at = {} THEN Len(s) ELSE (CHOOSE i \in at : \A j \in at : i <= j) - 1

\* new URL(href) for an http URL: the host ends at the first "/", "?" or
\* "#", the path at the first "?" or "#", the query at the first "#"; a
\* string without scheme, or without host, is not a URL
ParseUrl(href) ==
    IF ~StartsWith(href, S_http) THEN RawUrl(href)
    ELSE LET rest     == SubSeq(href, Len(S_http) + 1, Len(href))
             hostLen  == SpanLen(rest, {"/", "?", "#"})
             afterH   == SubSeq(rest, hostLen + 1, Len(rest))
             pathLen  == SpanLen(afterH, {"?", "#"})
             afterP   == SubSeq(afterH, pathLen + 1, Len(afterH))
             queryLen == SpanLen(afterP, {"#"})
             query    == SubSeq(afterP, 1, queryLen)
         IN  IF hostLen = 0 THEN RawUrl(href)
             ELSE [valid |-> TRUE, href |-> href,
                   origin |-> S_http \o SubSeq(rest, 1, hostLen),
                   pathname |-> SubSeq(afterH, 1, pathLen),
                   search |-> IF query = <<"?">> THEN <<>> ELSE query]

Slashes(n) == [i \in 1..n |-> "/"]

\* URL strings: with and without scheme, host in either case, with and
\* without path, query and fragment, with up to MaxSlashes trailing slashes
UrlStrings ==
    {scheme \o host \o path \o Slashes(n) \o query \o hash :
        scheme \in {S_http, <<>>},
        host \in {<<"a", ".", "i", "o">>, <<"A", ".", "i", "o">>},
        path \in {<<>>, <<"/", "p">>},
        n \in 0..MaxSlashes,
        query \in {<<>>, <<"?", "q">>},
        hash \in {<<>>, <<"#", "x">>}}

NoNorm == [u |-> <<>>, pass |-> 0, once |-> <<>>, twice |-> <<>>]

\* ------------------ two invocations of conductDeepResearch on one instance
\* Every value an invocation works with is marked with the invocation it
\* belongs to: its query, its brief, the summaries of its sub-agents.
Invocations == {1, 2}

\* const state: ResearchState = {messages: [user query], notes: [], ...}, a
\* local of conductDeepResearch; allNotes and allRawNotes are locals of
\* conductMultiAgentResearch
NoRun ==
    [at |-> "idle",
     state |-> [messages |-> <<>>, research_brief |-> <<>>, notes |-> <<>>,
                raw_notes |-> <<>>],
     allNotes |-> <<>>, allRawNotes |-> <<>>,
     returned |-> [success |-> FALSE, research_brief |-> <<>>, notes |-> <<>>,
                   raw_notes |-> <<>>, final_report |-> <<>>]]

\* variant: allNotes and allRawNotes are one pair of arrays for the instance
PushNote_Shared(rs, i, note) ==
    [j \in Invocations |->
        [rs[j] EXCEPT !.allNotes = Append(@, note),
                      !.allRawNotes = Append(@, <<"Research on: ", note>>)]]

\* allNotes.push(result.content); allRawNotes.push(`Research on: ...`), on
\* the arrays of the invocation that runs
PushNote(rs, i, note) ==
    [rs EXCEPT ![i].allNotes = Append(@, note),
               ![i].allRawNotes = Append(@, <<"Research on: ", note>>)]

\* ------------------------------------------------------------------ state
\* ----------------------------------- searchScholar and searchNews alone
\* the adapters asked by searchScholar and by searchNews, in the order of
\* scholarPromises and newsPromises: those of the registered services
ScholarSources ==
    SelectSeq(<<"google", "duckduckgo", "tavily", "langsearch">>,
              LAMBDA s : s \in searchServices)

\* whether the adapter's call can reject: GoogleSearchService.searchNews
\* catches every error and returns []; the other calls end in performSearch
\* or in BaseSearchService.search, which pass errors on
CanReject(operation, source) ==
    ~(operation = "searchNews" /\ source = "google")

\* `await Promise.all(promises)` and weightedCombine(allResults.flat()),
\* once a promise has rejected or all are fulfilled
ScholarOutcome(promises) ==
    IF \E i \in 1..Len(promises) : promises[i].status = "rejected"
    THEN [threw |-> TRUE, results |-> <<>>]
    ELSE [threw |-> FALSE,
          results |-> weightedCombine(Flat([i \in 1..Len(promises) |->
                                              promises[i].results]))]

NoScholar ==
    [operation |-> "none", promises |-> <<>>, returned |-> FALSE,
     threw |-> FALSE, results |-> <<>>]

\* -------------------------------------- BaseSearchService.search alone
\* BaseSearchService.deduplicateResults: the first result of each URL,
\* compared in lower case and without one trailing slash
BaseDeduplicate(results) ==
    LET key(i) == StripSlash(ToLowerCase(results[i].url.href))
        kept   == {i \in 1..Len(results) : \A j \in 1..(i - 1) : key(j) # key(i)}
        RECURSIVE Pick(_)
        Pick(i) == IF i > Len(results) THEN <<>>
                   ELSE (IF i \in kept THEN <<results[i]>> ELSE <<>>) \o Pick(i + 1)
    IN  Pick(1)

\* `signal: options.signal || controller.signal`: the token performSearch
\* is given
Token(b) == IF b.options.signal = "caller" THEN "caller" ELSE "controller"

\* whether the token performSearch was given is aborted
TokenAborted(b) ==
    IF Token(b) = "caller" THEN b.callerAborted ELSE b.controllerAborted

\* `options.timeout || this.defaultTimeout`; 0 stands for no timeout option
Timeout(b) == IF b.options.timeout # 0 THEN b.options.timeout ELSE 10000

\* the try and the catch of search, once performSearch has settled
BaseOutcome(b) ==
    CASE b.perform.status = "resolved" ->
            [threw |-> FALSE, results |-> BaseDeduplicate(b.perform.results)]
      [] b.perform.status = "AbortError" ->
            [threw |-> FALSE, results |-> <<>>]
      [] OTHER ->
            [threw |-> TRUE, results |-> <<>>]

BaseOptions == [timeout : {0, 1000, 5000}, signal : {"none", "caller"}]

NoBase ==
    [options |-> [timeout |-> 0, signal |-> "none"],
     timeoutMs |-> 0, timeoutId |-> "unset",
     controllerAborted |-> FALSE, callerAborted |-> FALSE,
     perform |-> Pending, returned |-> FALSE, threw |-> FALSE, results |-> <<>>]

\* ------------------------- DuckDuckGoSearchService.performSearch alone
\* what the instant-answer endpoint answers: the request fails (network
\* error or a status that is not ok), or a JSON body with or without an
\* abstract, an answer, a definition, and with some related topics
InstantAnswers ==
    [ok : {FALSE}, abstract : {FALSE}, related : {0}, answer : {FALSE},
     definition : {FALSE}]
    \cup [ok : {TRUE}, abstract : BOOLEAN, related : 0..MaxList,
          answer : BOOLEAN, definition : BOOLEAN]

\* searchInstantAnswer: the types of the results built from the body, in
\* the order abstract, related topics, answer, definition, cut to
\* `options.maxResults || 10`
searchInstantAnswer(body, maxResults) ==
    Slice((IF body.abstract THEN <<"abstract">> ELSE <<>>)
          \o [k \in 1..body.related |-> "related"]
          \o (IF body.answer THEN <<"answer">> ELSE <<>>)
          \o (IF body.definition THEN <<"definition">> ELSE <<>>),
          IF maxResults # 0 THEN maxResults ELSE 10)

\* what the HTML and the lite endpoints answer: a failure, or a page with
\* so many results
PageAnswers == {[ok |-> FALSE, found |-> 0]} \cup [ok : {TRUE}, found : 0..MaxList]

NoDdg ==
    [instant |-> [ok |-> FALSE, abstract |-> FALSE, related |-> 0,
                  answer |-> FALSE, definition |-> FALSE],
     html |-> [ok |-> FALSE, found |-> 0], lite |-> [ok |-> FALSE, found |-> 0],
     maxResults |-> 0, pcD |-> "none", called |-> <<>>,
     threw |-> FALSE, results |-> <<>>]

VARIABLES
    caller,          \* "route": POST handler; "direct": the service is called
    query,           \* the query as the caller received it
    max_iterations,  \* config.max_iterations
    pc,              \* where the invocation is
    state,           \* ResearchState: message, research_brief, notes, raw_notes
    iterations,      \* conductMultiAgentResearch: iterations
    allNotes,        \* conductMultiAgentResearch: allNotes
    allRawNotes,     \* conductMultiAgentResearch: allRawNotes
    supCalls,        \* supervisorResponse.tool_calls being executed
    supResults,      \* executeToolCalls: results, at the supervisor level
    forcedTopics,    \* forced-research topics not yet researched
    stack,           \* the sub-agent runs in progress, innermost last
    result,          \* what conductDeepResearch returned
    response,        \* what the POST handler answered
    timer,           \* the setTimeout of the POST handler: unset, armed, fired
    lm,              \* LM calls made so far, per phase
    answer,          \* the answer of the LM call of phase 1, 2 or 4 in flight
    subRuns,         \* sub-agent runs started for the supervisor's current
                     \* delegation (a conduct_research call or a forced topic)
    exitReason,      \* how the supervisor loop was left
    parse,           \* a call of parseToolCalls on its own: content, result
    search,          \* a call of UnifiedSearchService.search on its own
    dedup,           \* deduplicateResults on its own, applied twice
    norm,            \* normalizeUrl on its own, applied twice
    runs,            \* two invocations of conductDeepResearch at once
    scholar,         \* searchScholar or searchNews on its own
    base,            \* BaseSearchService.search on its own
    ddg              \* DuckDuckGoSearchService.performSearch on its own

\* the variables of an invocation of the pipeline
mainVars == <<caller, query, max_iterations, pc, state, iterations, allNotes,
              allRawNotes, supCalls, supResults, forcedTopics, stack, result,
              response, timer, lm, answer, subRuns, exitReason>>

\* the variables of the components exercised on their own
aux == <<parse, search, dedup, norm, runs, scholar, base, ddg>>

vars == <<mainVars, aux>>

supVars == <<iterations, allNotes, allRawNotes, supCalls, supResults, forcedTopics>>

NoReport == [source |-> "none", body |-> "undefined", findings |-> <<>>]

\* returned is FALSE until conductDeepResearch has returned
NoResult ==
    [returned |-> FALSE, success |-> FALSE, error |-> "undefined",
     details |-> "undefined",
     research_brief |-> "undefined", final_report |-> NoReport,
     notes |-> <<>>, raw_notes |-> <<>>]

\* status 0: the handler has not answered
NoResponse ==
    [status |-> 0, success |-> FALSE, error |-> "undefined",
     details |-> "undefined", payload |-> NoResult]

\* what JSON.parse can return for an LM answer: null, a scalar, or an object
\* whose need_clarification is true, false, another truthy value or absent
JsonNull == [type |-> "null", need_clarification |-> "undefined",
             question |-> "undefined", research_brief |-> "undefined"]
JsonScalar == [JsonNull EXCEPT !.type = "scalar"]
JsonObject(nc, q, b) ==
    [type |-> "object", need_clarification |-> nc, question |-> q,
     research_brief |-> b]

\* An answer of AIProviderService.generateResponse: the call throws, or
\* returns a content that is not JSON (kind "text") or is JSON (its value)
Throws == [kind |-> "throw", value |-> JsonNull, content |-> "undefined"]
Text(c) == [kind |-> "text", value |-> JsonNull, content |-> c]
Json(v) == [kind |-> "json", value |-> v, content |-> "LM text"]
NoAnswer == [kind |-> "none", value |-> JsonNull, content |-> "undefined"]

NoParse ==
    [content |-> [text |-> <<>>, invs |-> <<>>], returned |-> FALSE,
     toolCalls |-> <<>>]

\* no component is exercised on its own
AuxIdle == parse = NoParse /\ search = NoSearch /\ dedup = NoDedup /\ norm = NoNorm
           /\ runs = [i \in Invocations |-> NoRun]
           /\ scholar = NoScholar
           /\ base = NoBase
           /\ ddg = NoDdg

Request(r) ==
    /\ caller = r[1]
    /\ query = r[2]
    /\ max_iterations = r[3]

\* the state before conductDeepResearch has done anything
Fresh ==
    /\ pc = "request"
    /\ state = [message |-> <<>>, research_brief |-> "undefined",
                notes |-> <<>>, raw_notes |-> <<>>]
    /\ iterations = 0
    /\ allNotes = <<>>
    /\ allRawNotes = <<>>
    /\ supCalls = <<>>
    /\ supResults = <<>>
    /\ forcedTopics = <<>>
    /\ stack = <<>>
    /\ result = NoResult
    /\ response = NoResponse
    /\ timer = "unset"
    /\ lm = [clarify |-> 0, brief |-> 0, supervisor |-> 0, report |-> 0]
    /\ answer = NoAnswer
    /\ subRuns = 0
    /\ exitReason = "none"

Init ==
    /\ \E r \in Requests : Request(r)
    /\ Fresh
    /\ AuxIdle

\* NextResponse.json(result): 200 on success, 500 otherwise
ResponseOf(res) ==
    [status  |-> IF res.success THEN 200 ELSE 500,
     success |-> res.success,
     error   |-> res.error,
     details |-> res.details,
     payload |-> res]

\* the answer of the catch of POST to the rejection of timeoutPromise
TimeoutResponse ==
    [status  |-> 500,
     success |-> FALSE,
     error   |-> "Deep research operation timed out",
     details |-> "An unexpected error occurred during deep research processing",
     payload |-> NoResult]

\* variant: a promise that settles after the race is over still answers
Settle_Overwrites(resp) == response' = resp

\* Promise.race: the first promise to settle decides the answer of the
\* handler; what settles later is ignored
Settle(resp) ==
    response' = IF response.status = 0 THEN resp ELSE response

\* conductDeepResearch returns res; when the POST handler is the caller,
\* its promise settles the race
Return(res) ==
    /\ result' = res
    /\ IF caller = "route" THEN Settle(ResponseOf(res)) ELSE UNCHANGED response
    /\ pc' = "done"

Failure(error, details) ==
    [NoResult EXCEPT !.returned = TRUE, !.error = error, !.details = details]

\* ------------------------------------------------------------ entry points
\* POST: validation of the body, then conductDeepResearch(query.trim())
\* variant: the length test on the query as sent, not trimmed
QueryRejected_NoTrim(q) == q = <<>> \/ Len(q) < MinQueryLength

QueryRejected(q) == q = <<>> \/ Len(Trim(q)) < MinQueryLength

POST ==
    /\ pc = "request"
    /\ caller = "route"
    /\ IF QueryRejected(query)
       THEN /\ response' = [NoResponse EXCEPT
                               !.status = 400,
                               !.error = "Query must be a non-empty string (min 3 chars)."]
            /\ pc' = "done"
            /\ UNCHANGED <<state, timer>>
       ELSE /\ state' = [state EXCEPT !.message = Trim(query)]
            /\ timer' = "armed"
            /\ pc' = "clarify"
            /\ UNCHANGED response
    /\ UNCHANGED <<aux, caller, query, max_iterations, supVars, stack, result, lm,
                   answer, subRuns, exitReason>>

\* conductDeepResearch(query) called on the service itself
conductDeepResearch ==
    /\ pc = "request"
    /\ caller = "direct"
    /\ state' = [state EXCEPT !.message = query]
    /\ pc' = "clarify"
    /\ UNCHANGED <<aux, timer, caller, query, max_iterations, supVars, stack, result,
                   response, lm, answer, subRuns, exitReason>>

\* ------------------------------------------------------- phase 1: clarify
ClarifyAnswers ==
    {Throws, Text("LM text"), Json(JsonNull), Json(JsonScalar)}
    \cup {Json(JsonObject(nc, q, "undefined")) :
             nc \in {"true", "false", "yes", "undefined"},
             q \in {"Which area?", "undefined"}}

\* variant: the parsed answer is dropped and the pipeline proceeds
clarifyUserIntent_Proceeds(a) == JsonObject("false", "undefined", "undefined")

\* clarifyUserIntent: the parsed answer, or the fallback when the call or
\* JSON.parse throws
clarifyUserIntent(a) ==
    IF a.kind = "json" THEN a.value
    ELSE JsonObject("false", "undefined", "undefined")

\* JavaScript truthiness of a need_clarification value
Truthy(v) == v \in {"true", "yes"}

\* variant: the brief is skipped
NextPhase_SkipsBrief(phase) ==
    CASE phase = "clarify"    -> "supervisor"
      [] phase = "brief"      -> "supervisor"
      [] phase = "supervisor" -> "report"
      [] OTHER                -> "done"

\* the order of the steps of conductDeepResearch
NextPhase(phase) ==
    CASE phase = "clarify"    -> "brief"
      [] phase = "brief"      -> "supervisor"
      [] phase = "supervisor" -> "report"
      [] OTHER                -> "done"

\* the LM is called with the clarification prompt
ClarifyCall ==
    /\ pc = "clarify"
    /\ answer = NoAnswer
    /\ answer' \in ClarifyAnswers
    /\ lm' = [lm EXCEPT !.clarify = @ + 1]
    /\ UNCHANGED <<aux, timer, caller, query, max_iterations, pc, state, supVars, stack,
                   result, response, subRuns, exitReason>>

ClarifyStep ==
    /\ pc = "clarify"
    /\ answer # NoAnswer
    /\ LET clarification == clarifyUserIntent(answer) IN
          IF clarification.type = "null"
          THEN \* reading a property of null throws; caught at the top
               Return(Failure("TypeError", "undefined"))
          ELSE IF Truthy(clarification.need_clarification)
               THEN Return(Failure("Clarification needed", clarification.question))
               ELSE /\ pc' = NextPhase("clarify")
                    /\ UNCHANGED <<result, response>>
    /\ answer' = NoAnswer
    /\ UNCHANGED <<aux, timer, caller, query, max_iterations, state, supVars, stack, lm,
                   subRuns, exitReason>>

\* --------------------------------------------------------- phase 2: brief
BriefAnswers ==
    {Throws, Text("LM text"), Text(""), Json(JsonNull), Json(JsonScalar)}
    \cup {Json(JsonObject("undefined", "undefined", b)) :
             b \in {"LM text", "", "undefined"}}

\* generateResearchBrief: the parsed answer, the raw text when JSON.parse
\* throws, the template brief when the call throws
generateResearchBrief(a) ==
    CASE a.kind = "json" -> a.value
      [] a.kind = "text" -> JsonObject("undefined", "undefined", a.content)
      [] OTHER -> JsonObject("undefined", "undefined", "Research Brief: query")

BriefCall ==
    /\ pc = "brief"
    /\ answer = NoAnswer
    /\ answer' \in BriefAnswers
    /\ lm' = [lm EXCEPT !.brief = @ + 1]
    /\ UNCHANGED <<aux, timer, caller, query, max_iterations, pc, state, supVars, stack,
                   result, response, subRuns, exitReason>>

BriefStep ==
    /\ pc = "brief"
    /\ answer # NoAnswer
    /\ LET brief == generateResearchBrief(answer) IN
          IF brief.type = "null"
          THEN /\ Return(Failure("TypeError", "undefined"))
               /\ UNCHANGED state
          ELSE /\ state' = [state EXCEPT !.research_brief = brief.research_brief]
               /\ pc' = NextPhase("brief")
               /\ UNCHANGED <<result, response>>
    /\ answer' = NoAnswer
    /\ UNCHANGED <<aux, timer, caller, query, max_iterations, supVars, stack, lm,
                   subRuns, exitReason>>

\* ------------------------------------------- phase 3: multi-agent research
\* no searchService.search call made by the sub-agent loop itself
NoForcedSearch == [maxResults |-> 0, sources |-> <<>>, combineStrategy |-> "none"]

\* the locals of one executeResearchAgent run.  aiCalls counts its
\* callAIWithTools calls; pushed holds what the loop itself has pushed onto
\* agentMessages since the last of them (the results of executeToolCalls
\* are in results); forcedSearch holds the options of the search the loop
\* has made since then; compressed holds the answer of the compression
\* call; summary holds the answer the run is returning as its summary
NewFrame(topic) ==
    [topic |-> topic, agentIterations |-> 0,
     hasSearchedWeb |-> FALSE, hasSearchedScholar |-> FALSE,
     pcA |-> "call_ai", calls |-> <<>>, results |-> <<>>,
     aiCalls |-> 0, pushed |-> <<>>, forcedSearch |-> NoForcedSearch,
     compressed |-> "none", summary |-> "undefined"]

Top == stack[Len(stack)]

\* the answers of a tool-enabled LM call: it throws, or returns a text
AIAnswers(contents) ==
    {[kind |-> "throw", content |-> [text |-> T_plain, invs |-> <<>>]]}
    \cup {[kind |-> "ok", content |-> c] : c \in contents}

\* Texts the code writes itself ("Error in AI response: ...", "Research
\* summary for ...: Unable to compress findings ...") are, like the texts of
\* the LM, non-empty strings whose wording nothing reads
ErrorText == "LM text"

\* callAIWithTools: the assistant message
callAIWithTools(a) ==
    IF a.kind = "throw"
    THEN [role |-> "assistant", content |-> ErrorText, tool_calls |-> <<>>]
    ELSE [role |-> "assistant", content |-> ContentString(a.content),
          tool_calls |-> parseToolCalls(a.content)]

\* the assistant messages callAIWithTools can return to the supervisor
SupervisorResponses ==
    {callAIWithTools(a) : a \in AIAnswers(SupervisorContents)}

\* ... and to a sub-agent
AgentResponsesPlain ==
    {callAIWithTools(a) : a \in AIAnswers(AgentContents(FALSE))}
AgentResponsesDelegating ==
    {callAIWithTools(a) : a \in AIAnswers(AgentContents(TRUE))}
AgentResponses(depth, agentIterations) ==
    IF depth < MaxDepth /\ agentIterations = 0
    THEN AgentResponsesDelegating
    ELSE AgentResponsesPlain

\* conductMultiAgentResearch returns {notes, raw_notes}; conductDeepResearch
\* stores them on the state and goes on to the report
ExitLoop(reason, notes, raw_notes) ==
    /\ state' = [state EXCEPT !.notes = notes, !.raw_notes = raw_notes]
    /\ exitReason' = reason
    /\ pc' = NextPhase("supervisor")

\* variant: one iteration more than the cap
LoopContinues_Inclusive(i) == i <= max_iterations

\* the while condition of the supervisor loop, evaluated with i iterations
LoopContinues(i) == i < max_iterations

SupervisorCallAI ==
    /\ pc = "supervisor"
    /\ LoopContinues(iterations)
    /\ \E supervisorResponse \in SupervisorResponses :
          /\ lm' = [lm EXCEPT !.supervisor = @ + 1]
          /\ IF Len(supervisorResponse.tool_calls) > 0
             THEN /\ supCalls' = supervisorResponse.tool_calls
                  /\ supResults' = <<>>
                  /\ pc' = "sup_tools"
                  /\ UNCHANGED <<forcedTopics, state, exitReason>>
             ELSE IF iterations = 0 /\ Len(allNotes) = 0
                  THEN /\ forcedTopics' = generateForcedResearchTopics(state.message)
                       /\ pc' = "sup_forced"
                       /\ UNCHANGED <<supCalls, supResults, state, exitReason>>
                  ELSE /\ ExitLoop("no_tool_calls", allNotes, allRawNotes)
                       /\ UNCHANGED <<supCalls, supResults, forcedTopics>>
    /\ UNCHANGED <<aux, timer, caller, query, max_iterations, iterations, allNotes, allRawNotes,
                   stack, result, response, answer, subRuns>>

\* the forced-research loop: one sub-agent run per topic, then break
ForcedResearch ==
    /\ pc = "sup_forced"
    /\ stack = <<>>
    /\ IF forcedTopics # <<>>
       THEN /\ stack' = <<NewFrame(Head(forcedTopics))>>
            /\ subRuns' = subRuns + 1
            /\ UNCHANGED <<state, exitReason, pc>>
       ELSE /\ ExitLoop("forced", allNotes, allRawNotes)
            /\ UNCHANGED <<stack, subRuns>>
    /\ UNCHANGED <<aux, timer, caller, query, max_iterations, supVars, result, response, lm,
                   answer>>

\* ------------------------------------------------------- executeToolCalls
AtSupervisor == stack = <<>> /\ pc = "sup_tools"
AtAgent == stack # <<>> /\ Top.pcA = "exec_tools"

CurrentCalls == IF stack = <<>> THEN supCalls ELSE Top.calls
CurrentResults == IF stack = <<>> THEN supResults ELSE Top.results
CurrentCall == CurrentCalls[Len(CurrentResults) + 1]

IsSearchTool(name) ==
    name \in {"web_search", "scholar_search", "news_search", "doc_search"}

\* variant: every message carries the id of the first call of the list
ToolMessage_FirstId(toolCall, content) ==
    [role |-> "tool", content |-> content,
     tool_call_id |-> [toolCall.id EXCEPT !.n = 1], name |-> toolCall.name]

ToolMessage(toolCall, content) ==
    [role |-> "tool", content |-> content,
     tool_call_id |-> toolCall.id, name |-> toolCall.name]

SearchResultKinds == {"results", "empty"}

\* the content of the tool message of one call, for each outcome of its
\* dispatch.  UnifiedSearchService.search catches the failures of its
\* adapters; searchScholar, searchNews and searchDocumentation do not.
ToolContents(toolCall) ==
    CASE toolCall.name = "web_search" ->
            {formatSearchResults(r, "Web") : r \in SearchResultKinds}
      [] toolCall.name = "scholar_search" ->
            {formatSearchResults(r, "Scholar") : r \in SearchResultKinds}
            \cup {"Error executing " \o toolCall.name}
      [] toolCall.name = "news_search" ->
            {formatSearchResults(r, "News") : r \in SearchResultKinds}
            \cup {"Error executing " \o toolCall.name}
      [] toolCall.name = "doc_search" ->
            {formatSearchResults(r, "Documentation") : r \in SearchResultKinds}
            \cup {"Error executing " \o toolCall.name}
      [] toolCall.name = "think" ->
            {"Thinking: " \o toolCall.args.thoughts}
      [] toolCall.name = "research_complete" ->
            {"Research completed: " \o toolCall.args.summary}
      [] OTHER ->
            {"Unknown tool: " \o toolCall.name}

\* variant: the message is put in front of the results
PushResult_InFront(message) ==
    IF stack = <<>>
    THEN /\ supResults' = <<message>> \o supResults
         /\ UNCHANGED stack
    ELSE /\ stack' = [stack EXCEPT ![Len(stack)].results = <<message>> \o @]
         /\ UNCHANGED supResults

\* results.push(message) in the executeToolCalls that is running
PushResult(message) ==
    IF stack = <<>>
    THEN /\ supResults' = Append(supResults, message)
         /\ UNCHANGED stack
    ELSE /\ stack' = [stack EXCEPT ![Len(stack)].results = Append(@, message)]
         /\ UNCHANGED supResults

\* one pass of the for loop of executeToolCalls, for every tool but
\* conduct_research
ExecuteToolCall ==
    /\ AtSupervisor \/ AtAgent
    /\ Len(CurrentResults) < Len(CurrentCalls)
    /\ CurrentCall.name # "conduct_research"
    /\ \E content \in ToolContents(CurrentCall) :
          PushResult(ToolMessage(CurrentCall, content))
    /\ UNCHANGED <<aux, timer, caller, query, max_iterations, pc, state, iterations, allNotes,
                   allRawNotes, supCalls, forcedTopics, result, response, lm,
                   answer,
                   subRuns, exitReason>>

\* case 'conduct_research': executeResearchAgent(args.research_topic) starts
DelegateResearch ==
    /\ AtSupervisor \/ AtAgent
    /\ Len(CurrentResults) < Len(CurrentCalls)
    /\ CurrentCall.name = "conduct_research"
    /\ stack' = Append(stack, NewFrame(CurrentCall.args.research_topic))
    /\ subRuns' = subRuns + 1
    /\ UNCHANGED <<aux, timer, caller, query, max_iterations, pc, state, supVars, result,
                   response, lm, answer, exitReason>>

RECURSIVE CollectNotes_NoReturn(_, _, _)
\* variant: a research_complete result does not end the for loop
CollectNotes_NoReturn(toolResults, notes, raw_notes) ==
    IF toolResults = <<>>
    THEN [notes |-> notes, raw_notes |-> raw_notes, complete |-> FALSE]
    ELSE LET r == Head(toolResults)
             take == r.name = "conduct_research" /\ r.content # ""
         IN  CollectNotes_NoReturn(
                 Tail(toolResults),
                 IF take THEN Append(notes, r.content) ELSE notes,
                 IF take THEN Append(raw_notes, "Research on: " \o r.content)
                 ELSE raw_notes)

RECURSIVE CollectNotes_RawAlways(_, _, _)
\* variant: the raw note is pushed for every conduct_research result, the
\* note only for those with a content
CollectNotes_RawAlways(toolResults, notes, raw_notes) ==
    IF toolResults = <<>>
    THEN [notes |-> notes, raw_notes |-> raw_notes, complete |-> FALSE]
    ELSE LET r == Head(toolResults)
             take == r.name = "conduct_research" /\ r.content # ""
             n2 == IF take THEN Append(notes, r.content) ELSE notes
             w2 == IF r.name = "conduct_research"
                   THEN Append(raw_notes, "Research on: " \o r.content)
                   ELSE raw_notes
         IN  IF r.name = "research_complete"
             THEN [notes |-> n2, raw_notes |-> w2, complete |-> TRUE]
             ELSE CollectNotes_RawAlways(Tail(toolResults), n2, w2)

RECURSIVE CollectNotes(_, _, _)
\* the for loop over toolResults of the supervisor: notes and raw notes
\* after it, and whether it returned on a research_complete result
CollectNotes(toolResults, notes, raw_notes) ==
    IF toolResults = <<>>
    THEN [notes |-> notes, raw_notes |-> raw_notes, complete |-> FALSE]
    ELSE LET r == Head(toolResults)
             take == r.name = "conduct_research" /\ r.content # ""
             n2 == IF take THEN Append(notes, r.content) ELSE notes
             w2 == IF take THEN Append(raw_notes, "Research on: " \o r.content)
                   ELSE raw_notes
         IN  IF r.name = "research_complete"
             THEN [notes |-> n2, raw_notes |-> w2, complete |-> TRUE]
             ELSE CollectNotes(Tail(toolResults), n2, w2)

\* executeToolCalls has returned to the supervisor loop
SupervisorProcessResults ==
    /\ AtSupervisor
    /\ Len(supResults) = Len(supCalls)
    /\ LET c == CollectNotes(supResults, allNotes, allRawNotes) IN
          /\ allNotes' = c.notes
          /\ allRawNotes' = c.raw_notes
          /\ IF c.complete
             THEN /\ ExitLoop("research_complete", c.notes, c.raw_notes)
                  /\ UNCHANGED iterations
             ELSE /\ iterations' = iterations + 1
                  /\ IF LoopContinues(iterations + 1)
                     THEN /\ pc' = "supervisor"
                          /\ UNCHANGED <<state, exitReason>>
                     ELSE ExitLoop("max_iterations", c.notes, c.raw_notes)
    /\ supCalls' = <<>>
    /\ supResults' = <<>>
    /\ UNCHANGED <<aux, timer, caller, query, max_iterations, forcedTopics, stack, result,
                   response, lm, answer, subRuns>>

\* --------------------------------------------------- executeResearchAgent
\* the run on top of the stack returns summary to its caller: the
\* executeToolCalls that dispatched it, or the forced-research loop
AgentReturn(summary) ==
    LET rest == SubSeq(stack, 1, Len(stack) - 1) IN
    IF rest # <<>>
    THEN LET parent == rest[Len(rest)]
             toolCall == parent.calls[Len(parent.results) + 1]
         IN  /\ stack' = [rest EXCEPT ![Len(rest)].results =
                                        Append(@, ToolMessage(toolCall, summary))]
             /\ UNCHANGED <<supResults, allNotes, allRawNotes, forcedTopics, subRuns>>
    ELSE /\ stack' = <<>>
         /\ subRuns' = 0
         /\ IF pc = "sup_tools"
            THEN /\ supResults' =
                        Append(supResults,
                               ToolMessage(supCalls[Len(supResults) + 1], summary))
                 /\ UNCHANGED <<allNotes, allRawNotes, forcedTopics>>
            ELSE /\ allNotes' = Append(allNotes, summary)
                 /\ allRawNotes' =
                        Append(allRawNotes, "Forced research on: " \o Head(forcedTopics))
                 /\ forcedTopics' = Tail(forcedTopics)
                 /\ UNCHANGED supResults

\* variant: the loop runs while agentIterations <= maxAgentIterations
NextIteration_Inclusive(frame) ==
    [frame EXCEPT !.agentIterations = @ + 1,
                  !.pcA = IF frame.agentIterations + 1 <= maxAgentIterations
                          THEN "call_ai" ELSE "compress"]

\* agentIterations++ and the while condition of the sub-agent loop
NextIteration(frame) ==
    [frame EXCEPT !.agentIterations = @ + 1,
                  !.pcA = IF frame.agentIterations + 1 < maxAgentIterations
                          THEN "call_ai" ELSE "compress"]

\* variant: one kind of search is not enough
AcceptsSummary_BothSearches(frame) ==
    (frame.hasSearchedWeb /\ frame.hasSearchedScholar) \/ frame.agentIterations >= 2

\* variant: every response without tool call is accepted
AcceptsSummary_Always(frame) == TRUE

\* the summary is accepted only after a web or scholar search, or from the
\* third iteration on
AcceptsSummary(frame) ==
    frame.hasSearchedWeb \/ frame.hasSearchedScholar \/ frame.agentIterations >= 2

HasCall(toolCalls, name) == \E i \in 1..Len(toolCalls) : toolCalls[i].name = name

AgentCallAI ==
    /\ stack # <<>>
    /\ Top.pcA = "call_ai"
    /\ \E agentResponse \in AgentResponses(Len(stack), Top.agentIterations) :
          IF Len(agentResponse.tool_calls) > 0
          THEN /\ stack' = [stack EXCEPT ![Len(stack)] =
                    [@ EXCEPT
                       !.hasSearchedWeb = @ \/ HasCall(agentResponse.tool_calls, "web_search"),
                       !.hasSearchedScholar = @ \/ HasCall(agentResponse.tool_calls, "scholar_search"),
                       !.calls = agentResponse.tool_calls,
                       !.results = <<>>,
                       !.aiCalls = @ + 1,
                       !.pushed = <<>>,
                       !.forcedSearch = NoForcedSearch,
                       !.pcA = "exec_tools"]]
               /\ UNCHANGED <<supResults, allNotes, allRawNotes, forcedTopics, subRuns>>
          ELSE IF AcceptsSummary(Top)
               THEN /\ stack' = [stack EXCEPT ![Len(stack)] =
                         [@ EXCEPT !.aiCalls = @ + 1,
                                   !.pushed = <<>>,
                                   !.forcedSearch = NoForcedSearch,
                                   !.summary = agentResponse.content,
                                   !.pcA = "return"]]
                    /\ UNCHANGED <<supResults, allNotes, allRawNotes, forcedTopics, subRuns>>
               ELSE /\ stack' = [stack EXCEPT ![Len(stack)] =
                         [@ EXCEPT !.aiCalls = @ + 1,
                                   !.pushed = <<>>,
                                   !.forcedSearch = NoForcedSearch,
                                   !.pcA = "forced_search"]]
                    /\ UNCHANGED <<supResults, allNotes, allRawNotes, forcedTopics, subRuns>>
    /\ UNCHANGED <<aux, timer, caller, query, max_iterations, pc, state, iterations, supCalls,
                   result, response, lm, answer, exitReason>>

\* return response.content: the caller of executeResearchAgent resumes
\* with the accepted answer
AgentReturnsAnswer ==
    /\ stack # <<>>
    /\ Top.pcA = "return"
    /\ AgentReturn(Top.summary)
    /\ UNCHANGED <<aux, timer, caller, query, max_iterations, pc, state, iterations, supCalls,
                   result, response, lm, answer, exitReason>>

\* executeToolCalls has returned to the sub-agent loop
\* the reminder pushed after the tool results of the third iteration
SearchReminder ==
    [role |-> "user",
     content |-> "Please ensure you use both web_search and scholar_search to get comprehensive information from different sources."]

\* variant: the reminder is pushed after every iteration that lacks a search
NeedsReminder_EveryIteration(frame) ==
    ~frame.hasSearchedWeb \/ ~frame.hasSearchedScholar

\* agentIterations === 2 && (!hasSearchedWeb || !hasSearchedScholar)
NeedsReminder(frame) ==
    /\ frame.agentIterations = 2
    /\ ~frame.hasSearchedWeb \/ ~frame.hasSearchedScholar

AgentToolsDone ==
    /\ AtAgent
    /\ Len(Top.results) = Len(Top.calls)
    /\ stack' = [stack EXCEPT ![Len(stack)] =
                    NextIteration(
                      [@ EXCEPT !.calls = <<>>, !.results = <<>>,
                                !.pushed =
                                   IF NeedsReminder(Top)
                                   THEN <<SearchReminder>> ELSE <<>>])]
    /\ UNCHANGED <<aux, timer, caller, query, max_iterations, pc, state, supVars, result,
                   response, lm, answer, subRuns, exitReason>>

\* the sub-agent has not searched: searchService.search(topic, duckduckgo),
\* which returns results or none and does not throw
ForcedSearchOptions ==
    [maxResults |-> 5, sources |-> <<"duckduckgo">>, combineStrategy |-> "weighted"]

\* the two messages pushed after the forced search
ForcedSearchMessages(searchSummary) ==
    <<[role |-> "tool", content |-> searchSummary,
       tool_call_id |-> "forced_search", name |-> "web_search"],
      [role |-> "user",
       content |-> "Based on the search results above, provide a comprehensive summary with analysis and insights."]>>

AgentForcedSearch ==
    /\ stack # <<>>
    /\ Top.pcA = "forced_search"
    /\ \E r \in SearchResultKinds :
          stack' = [stack EXCEPT ![Len(stack)] =
                       NextIteration(
                         [@ EXCEPT !.forcedSearch = ForcedSearchOptions,
                                   !.pushed = ForcedSearchMessages(
                                                 formatSearchResults(r, "Web"))])]
    /\ UNCHANGED <<aux, timer, caller, query, max_iterations, pc, state, supVars, result,
                   response, lm, answer, subRuns, exitReason>>

CompressAnswers == {"throw", "LM text", ""}

\* compressResearchFindings: the LM's text, or the fixed text of the catch
\* ("Research summary for <topic>: Unable to compress findings ...")
compressResearchFindings(a) ==
    IF a = "throw" THEN ErrorText
    ELSE a

\* the loop has ended: AIProviderService.generateResponse is called with
\* the compression prompt, and answers or throws
AgentCompressCall ==
    /\ stack # <<>>
    /\ Top.pcA = "compress"
    /\ \E a \in CompressAnswers :
          stack' = [stack EXCEPT ![Len(stack)] =
                       [@ EXCEPT !.compressed = a, !.pcA = "compressed"]]
    /\ UNCHANGED <<aux, timer, caller, query, max_iterations, pc, state, supVars, result,
                   response, lm, answer, subRuns, exitReason>>

\* ... and executeResearchAgent returns what compressResearchFindings returns
AgentCompress ==
    /\ stack # <<>>
    /\ Top.pcA = "compressed"
    /\ AgentReturn(compressResearchFindings(Top.compressed))
    /\ UNCHANGED <<aux, timer, caller, query, max_iterations, pc, state, iterations, supCalls,
                   result, response, lm, answer, exitReason>>

\* --------------------------------------------------------- phase 4: report
ReportAnswers == {Throws, Text("LM text"), Text("")}

\* variant: the fallback report leaves the findings out
generateFinalReport_NoFindings(a, notes) ==
    IF a.kind = "throw"
    THEN [source |-> "fallback", body |-> "# Research Report", findings |-> <<>>]
    ELSE [source |-> "lm", body |-> a.content, findings |-> <<>>]

\* generateFinalReport: the LM's text, or the fallback report, which starts
\* with "# Research Report" and has state.notes under "## Findings Summary"
generateFinalReport(a, notes) ==
    IF a.kind = "throw"
    THEN [source |-> "fallback", body |-> "# Research Report", findings |-> notes]
    ELSE [source |-> "lm", body |-> a.content, findings |-> <<>>]

ReportCall ==
    /\ pc = "report"
    /\ answer = NoAnswer
    /\ answer' \in ReportAnswers
    /\ lm' = [lm EXCEPT !.report = @ + 1]
    /\ UNCHANGED <<aux, timer, caller, query, max_iterations, pc, state, supVars, stack,
                   result, response, subRuns, exitReason>>

ReportStep ==
    /\ pc = "report"
    /\ answer # NoAnswer
    /\ Return([NoResult EXCEPT
                 !.returned = TRUE,
                 !.success = TRUE,
                 !.research_brief = state.research_brief,
                 !.final_report = generateFinalReport(answer, state.notes),
                 !.notes = state.notes,
                 !.raw_notes = state.raw_notes])
    /\ answer' = NoAnswer
    /\ UNCHANGED <<aux, timer, caller, query, max_iterations, state, supVars, stack, lm,
                   subRuns, exitReason>>

\* ------------------------------------------------- the handler's timer
\* The callback of setTimeout runs: timeoutPromise is rejected.  It runs
\* only while the handler's code is suspended on an await, so not between
\* a step of conductDeepResearch and the LM call that follows it at once.
\* Nothing cancels conductDeepResearch, and nothing clears the timer.
TimerFires ==
    /\ timer = "armed"
    /\ ~(pc \in {"clarify", "brief", "report"} /\ answer = NoAnswer)
    /\ timer' = "fired"
    /\ Settle(TimeoutResponse)
    /\ UNCHANGED <<aux, caller, query, max_iterations, pc, state, supVars, stack,
                   result, lm, answer, subRuns, exitReason>>

Next ==
    \/ POST
    \/ conductDeepResearch
    \/ ClarifyCall
    \/ ClarifyStep
    \/ BriefCall
    \/ BriefStep
    \/ SupervisorCallAI
    \/ ForcedResearch
    \/ ExecuteToolCall
    \/ DelegateResearch
    \/ SupervisorProcessResults
    \/ AgentCallAI
    \/ AgentReturnsAnswer
    \/ AgentToolsDone
    \/ AgentForcedSearch
    \/ AgentCompressCall
    \/ AgentCompress
    \/ ReportCall
    \/ ReportStep
    \/ TimerFires

Spec == Init /\ [][Next]_vars

\* ------------------------------------------- parseToolCalls on its own
\* every invocation the contents are built from
AllInvocations ==
    SupervisorSingles \cup AgentSingles
    \cup {Invoke("colon", "web_search", "unquoted"),
          Invoke("USE_TOOL", "conduct_research", "keyed")}

ParseInputs ==
    {[text |-> t, invs |-> v] :
        t \in Texts,
        v \in UNION {SeqsOver(AllInvocations, n) : n \in 0..MaxInvs}}

InitParse ==
    /\ Request(<<"direct", <<>>, 1>>)
    /\ Fresh
    /\ ddg = NoDdg
    /\ base = NoBase
    /\ scholar = NoScholar
    /\ parse \in {[NoParse EXCEPT !.content = c] : c \in ParseInputs}
    /\ search = NoSearch
    /\ dedup = NoDedup
    /\ norm = NoNorm
    /\ runs = [i \in Invocations |-> NoRun]

ParseStep ==
    /\ ~parse.returned
    /\ parse' = [parse EXCEPT !.returned = TRUE,
                              !.toolCalls = parseToolCalls(parse.content)]
    /\ UNCHANGED <<mainVars, search, dedup, norm, runs, scholar, base, ddg>>

NextParse == ParseStep

SpecParse == InitParse /\ [][NextParse]_vars

\* ------------------------------------- UnifiedSearchService.search
\* search is called: one adapter call per available source is started
InitSearch ==
    /\ Request(<<"direct", <<>>, 1>>)
    /\ Fresh
    /\ ddg = NoDdg
    /\ base = NoBase
    /\ scholar = NoScholar
    /\ parse = NoParse
    /\ dedup = NoDedup
    /\ norm = NoNorm
    /\ runs = [i \in Invocations |-> NoRun]
    /\ search \in {[NoSearch EXCEPT
                      !.options = o,
                      !.calls = [i \in 1..Len(Available(o.sources)) |-> Pending]] :
                   o \in SearchOptions}

\* the adapter of availableSources[i] answers or throws
AdapterSettles(i) ==
    /\ ~search.returned
    /\ search.calls[i].status = "pending"
    /\ \E call \in {[status |-> "rejected", results |-> <<>>]}
                   \cup {[status |-> "resolved", results |-> l] :
                           l \in AdapterLists[availableSources[i]]} :
          search' = [search EXCEPT !.calls[i] = call,
                                   !.order = Append(@, i)]
    /\ UNCHANGED <<mainVars, parse, dedup, norm, runs, scholar, base, ddg>>

\* every promise has settled: combine, deduplicate, limit and return
SearchReturns ==
    /\ ~search.returned
    /\ \A i \in 1..Len(search.calls) : search.calls[i].status # "pending"
    /\ LET outcome == SearchOutcome(search.options, search.calls, search.order)
       IN  search' = [search EXCEPT !.returned = TRUE,
                                    !.threw = outcome.threw,
                                    !.results = outcome.results]
    /\ UNCHANGED <<mainVars, parse, dedup, norm, runs, scholar, base, ddg>>

NextSearch ==
    \/ \E i \in 1..Len(search.calls) : AdapterSettles(i)
    \/ SearchReturns

SpecSearch == InitSearch /\ [][NextSearch]_vars

\* ------------------------------------------- deduplicateResults on its own
InitDedup ==
    /\ Request(<<"direct", <<>>, 1>>)
    /\ Fresh
    /\ ddg = NoDdg
    /\ base = NoBase
    /\ scholar = NoScholar
    /\ parse = NoParse
    /\ search = NoSearch
    /\ norm = NoNorm
    /\ runs = [i \in Invocations |-> NoRun]
    /\ dedup \in {[NoDedup EXCEPT !.xs = xs] : xs \in DedupInputs}

\* deduplicateResults(xs)
DedupFirst ==
    /\ dedup.pass = 0
    /\ dedup' = [dedup EXCEPT !.pass = 1, !.once = deduplicateResults(dedup.xs)]
    /\ UNCHANGED <<mainVars, parse, search, norm, runs, scholar, base, ddg>>

\* deduplicateResults of the list the first call returned
DedupSecond ==
    /\ dedup.pass = 1
    /\ dedup' = [dedup EXCEPT !.pass = 2, !.twice = deduplicateResults(dedup.once)]
    /\ UNCHANGED <<mainVars, parse, search, norm, runs, scholar, base, ddg>>

NextDedup == DedupFirst \/ DedupSecond

SpecDedup == InitDedup /\ [][NextDedup]_vars

\* ------------------------------------------------ normalizeUrl on its own
InitNormalize ==
    /\ Request(<<"direct", <<>>, 1>>)
    /\ Fresh
    /\ ddg = NoDdg
    /\ base = NoBase
    /\ scholar = NoScholar
    /\ parse = NoParse
    /\ search = NoSearch
    /\ dedup = NoDedup
    /\ runs = [i \in Invocations |-> NoRun]
    /\ norm \in {[NoNorm EXCEPT !.u = u] : u \in UrlStrings}

\* normalizeUrl(u)
NormalizeFirst ==
    /\ norm.pass = 0
    /\ norm' = [norm EXCEPT !.pass = 1, !.once = normalizeUrl(ParseUrl(norm.u))]
    /\ UNCHANGED <<mainVars, parse, search, dedup, runs, scholar, base, ddg>>

\* normalizeUrl of the string the first call returned
NormalizeSecond ==
    /\ norm.pass = 1
    /\ norm' = [norm EXCEPT !.pass = 2, !.twice = normalizeUrl(ParseUrl(norm.once))]
    /\ UNCHANGED <<mainVars, parse, search, dedup, runs, scholar, base, ddg>>

NextNormalize == NormalizeFirst \/ NormalizeSecond

SpecNormalize == InitNormalize /\ [][NextNormalize]_vars

\* ------------------------------ searchScholar and searchNews on their own
InitScholar ==
    /\ Request(<<"direct", <<>>, 1>>)
    /\ Fresh
    /\ ddg = NoDdg
    /\ base = NoBase
    /\ parse = NoParse
    /\ search = NoSearch
    /\ dedup = NoDedup
    /\ norm = NoNorm
    /\ runs = [i \in Invocations |-> NoRun]
    /\ scholar \in {[NoScholar EXCEPT
                       !.operation = op,
                       !.promises = [i \in 1..Len(ScholarSources) |-> Pending]] :
                    op \in {"searchScholar", "searchNews"}}

\* the call of the adapter of ScholarSources[i] is fulfilled or rejects
ScholarAdapterSettles(i) ==
    /\ ~scholar.returned
    /\ scholar.promises[i].status = "pending"
    /\ \E call \in (IF CanReject(scholar.operation, ScholarSources[i])
                    THEN {[status |-> "rejected", results |-> <<>>]}
                    ELSE {})
                   \cup {[status |-> "resolved", results |-> l] :
                           l \in AdapterLists[ScholarSources[i]]} :
          scholar' = [scholar EXCEPT !.promises[i] = call]
    /\ UNCHANGED <<mainVars, parse, search, dedup, norm, runs, base, ddg>>

\* Promise.all settles: at the first rejection, or when all are fulfilled
ScholarReturns ==
    /\ ~scholar.returned
    /\ \/ \E i \in 1..Len(scholar.promises) : scholar.promises[i].status = "rejected"
       \/ \A i \in 1..Len(scholar.promises) : scholar.promises[i].status = "resolved"
    /\ LET outcome == ScholarOutcome(scholar.promises)
       IN  scholar' = [scholar EXCEPT !.returned = TRUE,
                                      !.threw = outcome.threw,
                                      !.results = outcome.results]
    /\ UNCHANGED <<mainVars, parse, search, dedup, norm, runs, base, ddg>>

NextScholar ==
    \/ \E i \in 1..Len(scholar.promises) : ScholarAdapterSettles(i)
    \/ ScholarReturns

SpecScholar == InitScholar /\ [][NextScholar]_vars

\* ------------------------------------ BaseSearchService.search on its own
\* search(query, options) is entered: the controller is made, the timer is
\* set and performSearch is called
InitBase ==
    /\ Request(<<"direct", <<>>, 1>>)
    /\ Fresh
    /\ ddg = NoDdg
    /\ parse = NoParse
    /\ search = NoSearch
    /\ dedup = NoDedup
    /\ norm = NoNorm
    /\ runs = [i \in Invocations |-> NoRun]
    /\ scholar = NoScholar
    /\ base \in {[NoBase EXCEPT !.options = o,
                                !.timeoutMs = Timeout([options |-> o]),
                                !.timeoutId = "armed"] :
                 o \in BaseOptions}

\* setTimeout(() => controller.abort(), timeout) fires; it can, as long as
\* clearTimeout has not been called
BaseTimerFires ==
    /\ base.timeoutId = "armed"
    /\ base' = [base EXCEPT !.timeoutId = "fired", !.controllerAborted = TRUE]
    /\ UNCHANGED <<mainVars, parse, search, dedup, norm, runs, scholar, ddg>>

\* the caller aborts the signal it supplied
BaseCallerAborts ==
    /\ base.options.signal = "caller"
    /\ ~base.callerAborted
    /\ ~base.returned
    /\ base' = [base EXCEPT !.callerAborted = TRUE]
    /\ UNCHANGED <<mainVars, parse, search, dedup, norm, runs, scholar, ddg>>

\* performSearch settles and search goes on in the same turn of the event
\* loop (clearTimeout, then return or throw).  With its token aborted
\* performSearch rejects with an AbortError; otherwise it returns results
\* or rejects with another error.
BasePerformSettles ==
    /\ ~base.returned
    /\ \E p \in IF TokenAborted(base)
                 THEN {[status |-> "AbortError", results |-> <<>>]}
                 ELSE {[status |-> "Error", results |-> <<>>]}
                      \cup {[status |-> "resolved", results |-> l] :
                              l \in AdapterLists["duckduckgo"]} :
          LET settled == [base EXCEPT !.perform = p]
          IN  base' = [settled EXCEPT
                         !.timeoutId = IF @ = "armed" THEN "cleared" ELSE @,
                         !.returned = TRUE,
                         !.threw = BaseOutcome(settled).threw,
                         !.results = BaseOutcome(settled).results]
    /\ UNCHANGED <<mainVars, parse, search, dedup, norm, runs, scholar, ddg>>

NextBase == BaseTimerFires \/ BaseCallerAborts \/ BasePerformSettles

SpecBase == InitBase /\ [][NextBase]_vars

\* ---------------------- DuckDuckGoSearchService.performSearch on its own
\* performSearch(query, options) is entered and calls searchInstantAnswer;
\* instant, html and lite are what the three endpoints answer when asked
InitDdg ==
    /\ Request(<<"direct", <<>>, 1>>)
    /\ Fresh
    /\ parse = NoParse
    /\ search = NoSearch
    /\ dedup = NoDedup
    /\ norm = NoNorm
    /\ runs = [i \in Invocations |-> NoRun]
    /\ scholar = NoScholar
    /\ base = NoBase
    /\ ddg \in {[NoDdg EXCEPT !.instant = a, !.html = h, !.lite = l,
                              !.maxResults = n, !.pcD = "instant",
                              !.called = <<"instant">>] :
                a \in InstantAnswers, h \in PageAnswers, l \in PageAnswers,
                n \in {0, 1}}

\* searchInstantAnswer settles: its results are returned if there is one,
\* searchHTML is called if there is none, searchLite if it threw
DdgInstantSettles ==
    /\ ddg.pcD = "instant"
    /\ LET instantResults == searchInstantAnswer(ddg.instant, ddg.maxResults)
       IN  IF ~ddg.instant.ok
           THEN ddg' = [ddg EXCEPT !.pcD = "lite", !.called = Append(@, "lite")]
           ELSE IF Len(instantResults) > 0
                THEN ddg' = [ddg EXCEPT !.pcD = "done", !.results = instantResults]
                ELSE ddg' = [ddg EXCEPT !.pcD = "html", !.called = Append(@, "html")]
    /\ UNCHANGED <<mainVars, parse, search, dedup, norm, runs, scholar, base>>

\* searchHTML settles: its results are returned, or searchLite is called
\* (the catch of performSearch)
DdgHTMLSettles ==
    /\ ddg.pcD = "html"
    /\ IF ddg.html.ok
       THEN ddg' = [ddg EXCEPT !.pcD = "done",
                               !.results = [k \in 1..ddg.html.found |-> "html"]]
       ELSE ddg' = [ddg EXCEPT !.pcD = "lite", !.called = Append(@, "lite")]
    /\ UNCHANGED <<mainVars, parse, search, dedup, norm, runs, scholar, base>>

\* searchLite settles: its results are returned, or its error is thrown
DdgLiteSettles ==
    /\ ddg.pcD = "lite"
    /\ IF ddg.lite.ok
       THEN ddg' = [ddg EXCEPT !.pcD = "done",
                               !.results = [k \in 1..ddg.lite.found |-> "lite"]]
       ELSE ddg' = [ddg EXCEPT !.pcD = "done", !.threw = TRUE]
    /\ UNCHANGED <<mainVars, parse, search, dedup, norm, runs, scholar, base>>

NextDdg == DdgInstantSettles \/ DdgHTMLSettles \/ DdgLiteSettles

SpecDdg == InitDdg /\ [][NextDdg]_vars

\* -------------------------------------- conductDeepResearch, twice at once
InitTwo ==
    /\ Request(<<"direct", <<>>, 1>>)
    /\ Fresh
    /\ AuxIdle
    /\ runs = [i \in Invocations |-> NoRun]

\* conductDeepResearch(query) is entered: the state of the invocation
RunStarts(i) ==
    /\ runs[i].at = "idle"
    /\ runs' = [runs EXCEPT ![i].at = "clarify",
                            ![i].state.messages = <<[of |-> i, text |-> "query"]>>]

\* phase 1: the invocation ends with the question, or goes on
RunClarifies(i) ==
    /\ runs[i].at = "clarify"
    /\ \E need_clarification \in BOOLEAN :
          runs' = [runs EXCEPT ![i].at = IF need_clarification THEN "returned"
                                         ELSE "brief"]

\* phase 2: state.research_brief = brief.research_brief
RunWritesBrief(i) ==
    /\ runs[i].at = "brief"
    /\ runs' = [runs EXCEPT ![i].at = "research",
                            ![i].state.research_brief =
                                <<[of |-> i, text |-> "brief"]>>]

\* phase 3: a sub-agent's summary is collected
RunCollectsNote(i) ==
    /\ runs[i].at = "research"
    /\ Len(runs[i].allNotes) < MaxIter
    /\ runs' = [PushNote(runs, i, [of |-> i, text |-> "summary"])
                   EXCEPT ![i].at = "research"]

\* conductMultiAgentResearch returns: state.notes, state.raw_notes
RunEndsResearch(i) ==
    /\ runs[i].at = "research"
    /\ runs' = [runs EXCEPT ![i].at = "report",
                            ![i].state.notes = runs[i].allNotes,
                            ![i].state.raw_notes = runs[i].allRawNotes]

\* phase 4 and the return of the result
RunReturns(i) ==
    /\ runs[i].at = "report"
    /\ \E source \in {"lm", "fallback"} :
          runs' = [runs EXCEPT
                     ![i].at = "returned",
                     ![i].returned =
                        [success |-> TRUE,
                         research_brief |-> runs[i].state.research_brief,
                         notes |-> runs[i].state.notes,
                         raw_notes |-> runs[i].state.raw_notes,
                         final_report |->
                            IF source = "lm" THEN <<[of |-> i, text |-> "report"]>>
                            ELSE runs[i].state.notes]]

NextTwo ==
    \E i \in Invocations :
       /\ \/ RunStarts(i)
          \/ RunClarifies(i)
          \/ RunWritesBrief(i)
          \/ RunCollectsNote(i)
          \/ RunEndsResearch(i)
          \/ RunReturns(i)
       /\ UNCHANGED <<mainVars, parse, search, dedup, norm, scholar, base, ddg>>

SpecTwo == InitTwo /\ [][NextTwo]_vars

\* ====================================================== properties
NoLMCall == lm = [clarify |-> 0, brief |-> 0, supervisor |-> 0, report |-> 0]

\* what a step of conductDeepResearch can change; a step that leaves the
\* timer as it is, is a step of conductDeepResearch
runVars == <<pc, state, supVars, stack, result, response, lm, answer, subRuns,
             exitReason, aux>>

\* conductDeepResearch has been entered
Called == pc # "request" /\ response.status # 400

\* ---------------------------------------------------------------- C1
\* C1 as stated: conductDeepResearch, given a query shorter than 3
\* characters, makes no LM call and returns a failure.
C1_ServiceRejectsShortQuery ==
    (Called /\ Len(query) < MinQueryLength) =>
        /\ NoLMCall
        /\ pc = "done" => (result.returned /\ ~result.success)

\* C1, amended: the minimum length is checked by the POST handler, on the
\* trimmed query.  A query whose trimmed length is below 3 is answered with
\* status 400 and "Query must be a non-empty string (min 3 chars).", and
\* neither conductDeepResearch nor the LM is called; a query of trimmed
\* length 3 or more is passed on, trimmed.
C1_RouteValidatesQuery ==
    (caller = "route" /\ pc # "request") =>
        IF Len(Trim(query)) < MinQueryLength
        THEN /\ response = [NoResponse EXCEPT
                               !.status = 400,
                               !.error = "Query must be a non-empty string (min 3 chars)."]
             /\ pc = "done"
             /\ NoLMCall
             /\ result = NoResult
             /\ state.message = <<>>
        ELSE /\ response.status # 400
             /\ state.message = Trim(query)

\* a query of 3 or more characters of which fewer than 3 remain when trimmed
\* has been rejected
C1_Witness ==
    /\ caller = "route"
    /\ pc = "done"
    /\ Len(query) >= MinQueryLength
    /\ Len(Trim(query)) = MinQueryLength - 1
    /\ response.status = 400

\* ---------------------------------------------------------------- C2
\* C2: when the phase-1 answer parses as a JSON object whose
\* need_clarification is true, conductDeepResearch returns the failure
\* "Clarification needed" with the question as details, and nothing runs
\* after it: no brief, no supervisor, no report, no further LM call.
C2_ClarificationEndsTheRun ==
    /\ [][(/\ pc = "clarify"
           /\ answer.kind = "json"
           /\ answer.value.type = "object"
           /\ answer.value.need_clarification = "true"
           /\ timer' = timer)
          => (/\ pc' = "done"
              /\ result' = Failure("Clarification needed", answer.value.question)
              /\ lm' = lm)]_vars
    /\ [](result.error = "Clarification needed" =>
             /\ result.returned
             /\ ~result.success
             /\ pc = "done"
             /\ lm = [clarify |-> 1, brief |-> 0, supervisor |-> 0, report |-> 0]
             /\ state.research_brief = "undefined"
             /\ stack = <<>>
             /\ exitReason = "none")
    /\ [][result.error = "Clarification needed" => UNCHANGED runVars]_vars

C2_Witness ==
    /\ pc = "done"
    /\ result.error = "Clarification needed"
    /\ result.details = "Which area?"

\* ---------------------------------------------------------------- C3
\* C3 as stated: whatever the LM and the adapters do, a run of
\* conductDeepResearch that did not end on a clarification succeeds.
C3_AlwaysSucceeds ==
    result.returned =>
        result.success \/ result.error = "Clarification needed"

\* ---------------------------------------------------------------- C4
\* C4 as stated: every success result has a non-empty final_report.
C4_ReportNonEmpty ==
    result.success => result.final_report.body # ""

\* ---------------------------------------------------------------- C5
\* C5 as stated: every success result has at least one note, or its
\* final_report came from the fallback of phase 4.
C5_NotesOrFallback ==
    result.success =>
        Len(result.notes) >= 1 \/ result.final_report.source = "fallback"

\* C5, amended: a success result has no note only when the supervisor loop
\* ended on a research_complete result, on the iteration cap or on a
\* response without tool calls after the first iteration; a loop that ended
\* through forced research always gives at least one note.  The notes are
\* those the loop returned, whichever way the report was produced.
C5_NotesUnlessLoopEndedEarly ==
    result.success =>
        /\ result.notes = state.notes
        /\ Len(result.notes) = 0 =>
              exitReason \in {"research_complete", "max_iterations", "no_tool_calls"}
        /\ exitReason = "forced" => Len(result.notes) >= 1

\* a success without notes whose report the LM wrote
C5_Witness ==
    /\ result.success
    /\ result.notes = <<>>
    /\ result.final_report.source = "lm"
    /\ exitReason = "research_complete"

\* ---------------------------------------------------------------- C6
\* C6 as stated: the LM calls of a run are bounded by the iteration caps:
\* max_iterations supervisor calls, and one sub-agent run of at most 5
\* calls for each research task the supervisor hands out.
C6_BoundedByIterationCaps ==
    /\ lm.supervisor <= max_iterations
    /\ \A i \in 1..Len(stack) : stack[i].agentIterations <= maxAgentIterations
    /\ Len(stack) <= 1
    /\ subRuns <= 1

\* ---------------------------------------------------------------- C7
\* C7: the phases run in the order clarify, brief, supervisor loop, report;
\* phases 1, 2 and 4 make exactly one LM call each, and the report is
\* generated only after the supervisor loop has been left.
C7_PhasesInOrder ==
    /\ [](/\ lm.clarify <= 1 /\ lm.brief <= 1 /\ lm.report <= 1
          /\ lm.brief >= 1 => (lm.clarify = 1 /\ pc # "clarify")
          /\ (lm.supervisor >= 1 \/ stack # <<>>) =>
                (lm.brief = 1 /\ pc \notin {"clarify", "brief"})
          /\ lm.report >= 1 =>
                (/\ pc \in {"report", "done"}
                 /\ exitReason # "none"
                 /\ stack = <<>>
                 /\ lm.clarify = 1 /\ lm.brief = 1)
          /\ result.success =>
                (lm.clarify = 1 /\ lm.brief = 1 /\ lm.report = 1))
    /\ [][lm.report >= 1 =>
             (lm'.supervisor = lm.supervisor /\ stack' = <<>> /\ state' = state)]_vars

C7_Witness ==
    /\ result.success
    /\ lm.supervisor >= 2
    /\ lm.report = 1

\* ---------------------------------------------------------------- C8
\* C8: the supervisor makes at most max_iterations LM calls, and a loop that
\* reaches the cap ends with the notes gathered so far.
C8_SupervisorCap ==
    /\ lm.supervisor <= max_iterations
    /\ iterations <= max_iterations
    /\ pc = "supervisor" => lm.supervisor = iterations
    /\ exitReason = "max_iterations" =>
          /\ iterations = max_iterations
          /\ lm.supervisor = max_iterations
          /\ state.notes = allNotes
          /\ state.raw_notes = allRawNotes

C8_Witness ==
    /\ exitReason = "max_iterations"
    /\ max_iterations >= 2
    /\ lm.supervisor = max_iterations
    /\ Len(state.notes) >= 1

\* ---------------------------------------------------------------- C9
\* C9: when a research_complete result is among the tool results of a
\* supervisor iteration, the loop makes no further LM call and returns the
\* notes accumulated up to that result, also when there are none.
C9_ResearchCompleteEndsLoop ==
    /\ [][(/\ AtSupervisor
           /\ Len(supResults) = Len(supCalls)
           /\ \E k \in 1..Len(supResults) : supResults[k].name = "research_complete"
           /\ timer' = timer)
          => LET first == CHOOSE k \in 1..Len(supResults) :
                              /\ supResults[k].name = "research_complete"
                              /\ \A j \in 1..(k - 1) :
                                    supResults[j].name # "research_complete"
                 taken == SelectSeq(SubSeq(supResults, 1, first),
                                    LAMBDA r : r.name = "conduct_research"
                                               /\ r.content # "")
                 upTo  == allNotes \o [i \in 1..Len(taken) |-> taken[i].content]
             IN  /\ pc' = "report"
                 /\ exitReason' = "research_complete"
                 /\ state'.notes = upTo
                 /\ lm' = lm]_vars
    /\ [][exitReason = "research_complete" =>
             (lm'.supervisor = lm.supervisor /\ state'.notes = state.notes
              /\ stack' = <<>>)]_vars
    /\ []((exitReason = "research_complete" /\ result.success) =>
             result.notes = state.notes)

\* the loop ended on research_complete with no note
C9_Witness ==
    /\ exitReason = "research_complete"
    /\ result.success
    /\ result.notes = <<>>

\* --------------------------------------------------------------- C10
\* results answers the first calls of the list, one message per call, in
\* their order
Answered(results, calls) ==
    /\ Len(results) <= Len(calls)
    /\ \A i \in 1..Len(results) :
          /\ results[i].role = "tool"
          /\ results[i].tool_call_id = calls[i].id
          /\ results[i].name = calls[i].name

\* C10: executeToolCalls returns exactly one tool message per tool call, in
\* the order of the calls, each with the id and the name of its call,
\* whether the call succeeded, threw or named an unknown tool.
C10_OneMessagePerCall ==
    /\ [](/\ Answered(supResults, supCalls)
          /\ \A f \in 1..Len(stack) : Answered(stack[f].results, stack[f].calls))
    /\ [][(AtSupervisor /\ supCalls' = <<>>) =>
             Len(supResults) = Len(supCalls)]_vars
    /\ [][(AtAgent /\ Len(stack') = Len(stack)
                   /\ stack'[Len(stack)].pcA # "exec_tools") =>
             Len(Top.results) = Len(Top.calls)]_vars

\* two calls answered, the first of which threw
C10_Witness ==
    /\ AtSupervisor
    /\ Len(supCalls) = 2
    /\ Len(supResults) = 2
    /\ supResults[1].content = "Error executing scholar_search"
    /\ supResults[2].content # "Error executing scholar_search"

\* --------------------------------------------------------------- C11
\* C11 as stated: for a text in which no pattern matches and which contains
\* the word "research", parseToolCalls returns exactly one call, a
\* web_search.
C11_ForcedWebSearch ==
    (/\ parse.returned
     /\ parse.content.invs = <<>>
     /\ Includes(ToLowerCase(parse.content.text), S_research))
    => /\ Len(parse.toolCalls) = 1
       /\ parse.toolCalls[1].name = "web_search"

\* --------------------------------------------------------------- C12
\* C12 as stated: when the supervisor's first response has no tool call,
\* forced research makes 2 or 3 topics from the query, whatever the query,
\* runs one sub-agent per topic, adds one note and one "Forced research on:"
\* raw note per topic, and leaves the loop without another supervisor call.
C12_ForcedResearchTopics ==
    exitReason = "forced" =>
        LET topics == generateForcedResearchTopics(state.message) IN
        /\ Len(topics) \in 2..3
        /\ Len(state.notes) = Len(topics)
        /\ state.raw_notes =
              [i \in 1..Len(topics) |-> "Forced research on: " \o topics[i]]
        /\ lm.supervisor = 1

\* --------------------------------------------------------------- C13
\* C13 as stated: when the phase-4 LM call throws, the result is a success
\* whose final_report is the fallback report, which starts with
\* "# Research Report" and has the raw_notes entries under its
\* "## Findings Summary" header.
C13_FallbackHasRawNotes ==
    [][(pc = "report" /\ answer.kind = "throw" /\ timer' = timer)
       => (/\ result'.success
           /\ result'.final_report.body = "# Research Report"
           /\ result'.final_report.findings = state.raw_notes)]_vars

\* C13, amended: when the phase-4 LM call throws, the result is a success
\* whose final_report is the fallback report, which starts with
\* "# Research Report" and has the notes entries (not the raw_notes entries)
\* under its "## Findings Summary" header.
C13_FallbackHasNotes ==
    [][(pc = "report" /\ answer.kind = "throw" /\ timer' = timer)
       => (/\ pc' = "done"
           /\ result'.returned
           /\ result'.success
           /\ result'.final_report =
                 [source |-> "fallback", body |-> "# Research Report",
                  findings |-> state.notes]
           /\ result'.notes = state.notes
           /\ result'.raw_notes = state.raw_notes)]_vars

\* a fallback report over notes that differ from the raw notes
C13_Witness ==
    /\ result.success
    /\ result.final_report.source = "fallback"
    /\ Len(result.notes) >= 1
    /\ result.final_report.findings = result.notes
    /\ result.notes # result.raw_notes

\* --------------------------------------------------------------- C14
\* C14: the POST handler races conductDeepResearch against its timer.  If
\* the timer fires first the response is the timeout failure, which carries
\* no research_brief, notes or final_report; if conductDeepResearch returns
\* first its result is the response and the later firing of the timer
\* changes nothing.  Either way exactly one response is produced: once
\* given, it never changes.
C14_RaceGivesOneResponse ==
    /\ [][(timer = "armed" /\ timer' = "fired")
          => (/\ response' = IF response.status = 0 THEN TimeoutResponse
                             ELSE response
              /\ result' = result)]_vars
    /\ [][(caller = "route" /\ ~result.returned /\ result'.returned)
          => response' = IF response.status = 0 THEN ResponseOf(result')
                         ELSE response]_vars
    /\ [][response.status # 0 => response' = response]_vars
    /\ [](response = TimeoutResponse =>
             /\ timer = "fired"
             /\ response.payload.research_brief = "undefined"
             /\ response.payload.notes = <<>>
             /\ response.payload.final_report = NoReport)

\* the timer fired first; conductDeepResearch succeeded afterwards and the
\* response is still the timeout failure
C14_Witness ==
    /\ response = TimeoutResponse
    /\ result.success
    /\ Len(result.notes) >= 1

\* --------------------------------------------------------------- C15
\* C15 as stated: once the timer has fired and the handler has answered with
\* the timeout, the invocation is aborted: no LM call, no tool call and no
\* sub-agent step follows.
C15_TimeoutAborts ==
    [][response = TimeoutResponse
       => (lm' = lm /\ stack' = stack /\ supResults' = supResults
           /\ result' = result)]_vars

\* ------------------------------------------------- search properties
\* every adapter call of the search has settled
AllSettled == \A i \in 1..Len(search.calls) : search.calls[i].status # "pending"

\* a search that has returned did so after every adapter call had settled
SearchReturnedAfterAll == search.returned => AllSettled

\* the adapter call of availableSources[i] resolved
Resolved(i) == search.calls[i].status = "resolved"

\* the search's calls, with a failed call replaced by one that found nothing
FailuresAsEmpty ==
    [i \in 1..Len(search.calls) |->
        IF Resolved(i) THEN search.calls[i]
        ELSE [status |-> "resolved", results |-> <<>>]]

\* the number of results the adapters found
Found == Len(Flat([i \in 1..Len(search.calls) |-> search.calls[i].results]))

\* --------------------------------------------------------------- C16
\* C16: when an adapter's search throws, search does not throw; the adapter
\* counts as having found nothing and what the other adapters found is
\* still combined into the returned list (every returned entry comes from
\* adapters that answered, every URL they found is returned unless
\* maxResults cuts the list, and nothing is lost when the strategy and
\* deduplication drop nothing).  search returns only after every adapter
\* call has settled.
C16_AdapterFailureAbsorbed ==
    search.returned =>
        /\ AllSettled
        /\ ~search.threw
        /\ search.results =
             SearchOutcome(search.options, FailuresAsEmpty, search.order).results
        /\ \A k \in 1..Len(search.results) :
              \A j \in 1..Len(search.results[k].source) :
                 \E i \in 1..Len(search.calls) :
                    /\ availableSources[i] = search.results[k].source[j]
                    /\ Resolved(i)
        /\ search.options.maxResults = 0 =>
              \A i \in 1..Len(search.calls) :
                 \A n \in 1..Len(search.calls[i].results) :
                    \E k \in 1..Len(search.results) :
                       normalizeUrl(search.results[k].url)
                         = normalizeUrl(search.calls[i].results[n].url)
        /\ (/\ search.options.maxResults = 0
            /\ ~search.options.deduplicate
            /\ search.options.combineStrategy # "weighted")
           => Len(search.results) = Found

\* google's adapter threw, duckduckgo's found two pages, both are returned
C16_Witness ==
    /\ search.returned
    /\ Len(search.calls) = 2
    /\ search.calls[1].status = "rejected"
    /\ search.calls[2].results = <<R_a2, R_b>>
    /\ Len(search.results) = 2
    /\ search.results[1].source = <<"duckduckgo">>

\* --------------------------------------------------------------- C17
\* C17: the list search returns is a function of the options and of what
\* each adapter found, whatever the order in which the adapter calls
\* completed: it is the list obtained when they complete in the order of
\* the sources.
C17_CompletionOrderIrrelevant ==
    search.returned =>
        search.results =
          SearchOutcome(search.options, search.calls,
                        [i \in 1..Len(search.calls) |-> i]).results

\* duckduckgo answered before google; google's result is still first in the
\* interleaved list
C17_Witness ==
    /\ search.returned
    /\ search.order = <<2, 1>>
    /\ search.options.combineStrategy = "interleave"
    /\ search.calls[1].results = <<R_b>>
    /\ search.calls[2].results = <<R_a2>>
    /\ Len(search.results) = 2
    /\ search.results[1].source = <<"google">>

\* --------------------------------------------------------------- C18
\* C18: with deduplicate = true no two entries of the returned list have the
\* same normalized URL, whatever the combine strategy.
C18_NoDuplicateUrls ==
    (search.returned /\ search.options.deduplicate) =>
        \A k, l \in 1..Len(search.results) :
           k # l => normalizeUrl(search.results[k].url)
                      # normalizeUrl(search.results[l].url)

\* both adapters found the same page under two spellings of its URL and
\* another page; the merged list has one entry for each page
C18_Witness ==
    /\ search.returned
    /\ Len(search.calls) = 2
    /\ search.options.deduplicate
    /\ search.options.combineStrategy = "merge"
    /\ search.calls[1].results = <<R_a, R_b>>
    /\ search.calls[2].results = <<R_a2>>
    /\ Len(search.results) = 2

\* what search hands to the combine strategy: the adapters' results with
\* source and weight, in the order of the sources
Inputs ==
    LET settled == PromiseAll(search.calls, search.order)
    IN  Flat([i \in 1..Len(settled) |-> settled[i].results])

RECURSIVE SumOfProducts(_)
\* the sum of score * weight over the members of a group
SumOfProducts(group) ==
    IF group = <<>> THEN Frac(0, 100)
    ELSE FracAdd(FracMul(Head(group).relevanceScore, Head(group).weight),
                 SumOfProducts(Tail(group)))

\* --------------------------------------------------------------- C19
\* C19 as stated: under the weighted strategy each group of results with
\* the same normalized URL gives exactly one entry, its relevanceScore is
\* the sum of score * weight over the members divided by the sum of their
\* weights, and its metadata.sources lists the source of every member.
C19_WeightedMean ==
    (search.returned /\ search.options.combineStrategy = "weighted") =>
        \A k \in 1..Len(search.results) :
           LET group == UrlGroup(Inputs, normalizeUrl(search.results[k].url))
           IN  /\ FracEq(search.results[k].relevanceScore,
                         FracDiv(SumOfProducts(group), TotalWeight(group)))
               /\ search.results[k].metadata.sources = SourcesOf(group)
               /\ search.results[k].metadata.sourceCount = Len(group)
               /\ \A l \in 1..Len(search.results) :
                     normalizeUrl(search.results[l].url)
                       = normalizeUrl(search.results[k].url) => l = k

\* the same without the score: one entry per group, with every member's
\* source
C19_GroupsAndSources ==
    (search.returned /\ search.options.combineStrategy = "weighted") =>
        \A k \in 1..Len(search.results) :
           LET group == UrlGroup(Inputs, normalizeUrl(search.results[k].url))
           IN  /\ search.results[k].metadata.sources = SourcesOf(group)
               /\ \A l \in 1..Len(search.results) :
                     normalizeUrl(search.results[l].url)
                       = normalizeUrl(search.results[k].url) => l = k

\* the sources at which a group's URL was found
SourcesAt(group) == {group[i].source[1] : i \in 1..Len(group)}

\* the place of the entry for URL key k in the returned list, 0 if it has none
Rank(k) ==
    LET at == {n \in 1..Len(search.results) :
                 normalizeUrl(search.results[n].url) = k}
    IN  IF at = {} THEN 0 ELSE CHOOSE n \in at : \A m \in at : n <= m

\* A is ranked at or above B: if B is in the list, A is in it and not
\* behind B
RankedAtOrAbove(kA, kB) ==
    Rank(kB) # 0 => (Rank(kA) # 0 /\ Rank(kA) <= Rank(kB))

\* score * weight, as the claim reads it
Product(r) == FracMul(r.relevanceScore, r.weight)

\* score * weight as weightedCombine computes it: a score of 0 counts as 0.5
EffectiveProduct(r) == FracMul(OrElse(r.relevanceScore, Half), r.weight)

\* --------------------------------------------------------------- C20
\* C20 as stated: under the weighted strategy, if URL A was found at every
\* source where URL B was found (and possibly more) and has a strictly
\* higher score * weight than B at every source where both were found, then
\* A is ranked at or above B in the returned list.
C20_SupersetMonotone ==
    (search.returned /\ search.options.combineStrategy = "weighted") =>
        \A a, b \in 1..Len(Inputs) :
           LET kA == normalizeUrl(Inputs[a].url)
               kB == normalizeUrl(Inputs[b].url)
               A == UrlGroup(Inputs, kA)
               B == UrlGroup(Inputs, kB)
           IN  (/\ kA # kB
                /\ SourcesAt(B) \subseteq SourcesAt(A)
                /\ \A i \in 1..Len(A) : \A j \in 1..Len(B) :
                      A[i].source = B[j].source
                        => FracLess(Product(B[j]), Product(A[i])))
               => RankedAtOrAbove(kA, kB)

\* C20, amended: under the weighted strategy, if URLs A and B were each
\* found exactly once at each of the same sources and A has a strictly
\* higher score * weight than B at every one of them, a score of 0 counting
\* as 0.5, then A is ranked above B in the returned list.
C20_SameSourcesMonotone ==
    (search.returned /\ search.options.combineStrategy = "weighted") =>
        \A a, b \in 1..Len(Inputs) :
           LET kA == normalizeUrl(Inputs[a].url)
               kB == normalizeUrl(Inputs[b].url)
               A == UrlGroup(Inputs, kA)
               B == UrlGroup(Inputs, kB)
           IN  (/\ kA # kB
                /\ SourcesAt(B) = SourcesAt(A)
                /\ Len(A) = Cardinality(SourcesAt(A))
                /\ Len(B) = Cardinality(SourcesAt(B))
                /\ \A i \in 1..Len(A) : \A j \in 1..Len(B) :
                      A[i].source = B[j].source
                        => FracLess(EffectiveProduct(B[j]), EffectiveProduct(A[i])))
               => (RankedAtOrAbove(kA, kB) /\ Rank(kA) # Rank(kB))

\* both adapters found page b before page a and score a higher: a is first
\* in the returned list
C20_Witness ==
    /\ search.returned
    /\ Len(search.calls) = 2
    /\ search.options.combineStrategy = "weighted"
    /\ search.calls[1].results = <<R_b, R_a>>
    /\ search.calls[2].results = <<R_b, R_a>>
    /\ Len(search.results) = 2
    /\ search.results[1].url = U_a

\* --------------------------------------------------------------- C21
\* C21: deduplication is idempotent: deduplicateResults applied to its own
\* result returns the same entries in the same order.
C21_DedupIdempotent ==
    dedup.pass = 2 => dedup.twice = dedup.once

\* three results, the third has the URL of the first under another spelling
\* and a longer snippet: it replaced the first one, and the second pass
\* left the two entries as they were
C21_Witness ==
    /\ dedup.pass = 2
    /\ Len(dedup.xs) = 3
    /\ Len(dedup.twice) = 2
    /\ dedup.twice[1].metadata.merged
    /\ dedup.twice[1].url = U_a2

\* --------------------------------------------------------------- C22
\* C22 as stated: URL normalization is idempotent: for every URL string,
\* normalizeUrl applied to its own result returns that result.
C22_NormalizeIdempotent ==
    norm.pass = 2 => norm.twice = norm.once

\* the same for the strings that end in at most one slash before the query
\* and the fragment
C22_IdempotentUpToOneSlash ==
    (norm.pass = 2
     /\ \A u \in UrlStrings :
           norm.u = u => ~Includes(u, <<"/", "/", "?">>) /\ ~Includes(u, <<"/", "/", "#">>)
                         /\ ~(Len(u) >= 2 /\ SubSeq(u, Len(u) - 1, Len(u)) = <<"/", "/">>))
    => norm.twice = norm.once

\* --------------------------------------------------------------- C23
\* C23: when none of the requested sources is a registered adapter, search
\* calls no adapter, does not throw, and what it returns is the empty list.
C23_NoAvailableSource ==
    (\A i \in 1..Len(search.options.sources) :
        search.options.sources[i] \notin searchServices)
    => /\ search.calls = <<>>
       /\ search.order = <<>>
       /\ ~search.threw
       /\ search.results = <<>>

\* a search over tavily alone, which is not registered, has returned
C23_Witness ==
    /\ search.returned
    /\ search.options.sources = <<"tavily">>
    /\ search.results = <<>>
    /\ search.calls = <<>>

\* every entry of a list of marked values belongs to invocation i
OwnedBy(i, values) == \A k \in 1..Len(values) : values[k].of = i

\* every raw note of the list is the lineage string of a value of
\* invocation i
RawOwnedBy(i, raw) == \A k \in 1..Len(raw) : raw[k][2].of = i

\* --------------------------------------------------------------- C24
\* C24: two invocations of conductDeepResearch that run interleaved on one
\* instance do not see each other's state: the messages, brief, notes and
\* raw notes an invocation holds and returns are its own, and a step of one
\* invocation changes nothing of the other.
C24_InvocationsIsolated ==
    /\ [](\A i \in Invocations :
            /\ OwnedBy(i, runs[i].state.messages)
            /\ OwnedBy(i, runs[i].state.research_brief)
            /\ OwnedBy(i, runs[i].allNotes)
            /\ OwnedBy(i, runs[i].state.notes)
            /\ RawOwnedBy(i, runs[i].allRawNotes)
            /\ RawOwnedBy(i, runs[i].state.raw_notes)
            /\ OwnedBy(i, runs[i].returned.research_brief)
            /\ OwnedBy(i, runs[i].returned.notes)
            /\ RawOwnedBy(i, runs[i].returned.raw_notes)
            /\ OwnedBy(i, runs[i].returned.final_report))
    /\ [][\A i, j \in Invocations :
             (i # j /\ runs'[i] # runs[i]) => runs'[j] = runs[j]]_vars

\* both invocations are under way: the first is about to write its report
\* with its two notes, the second has collected one note
C24_Witness ==
    /\ runs[1].at = "report"
    /\ Len(runs[1].state.notes) = 2
    /\ runs[2].at = "research"
    /\ Len(runs[2].allNotes) = 1

\* --------------------------------------------------------------- C25
\* C25 as stated: each invocation written in the LM text yields exactly one
\* ToolCall: a text with n invocations (n >= 1) yields n ToolCalls.
C25_OneCallPerInvocation ==
    (parse.returned /\ Len(parse.content.invs) >= 1)
    => Len(parse.toolCalls) = Len(parse.content.invs)

\* the same for the texts without a USE_TOOL: marker in front of a name of
\* the second pattern
C25_OneCallWithoutMarker ==
    (/\ parse.returned
     /\ Len(parse.content.invs) >= 1
     /\ \A k \in 1..Len(parse.content.invs) :
           ~(parse.content.invs[k].syntax = "USE_TOOL"
             /\ parse.content.invs[k].name \in Pattern2Names))
    => Len(parse.toolCalls) = Len(parse.content.invs)

\* --------------------------------------------------------------- C26
\* C26 as stated: a sub-agent never starts another sub-agent: at most one
\* sub-agent run is in progress in every reachable state.
C26_NoNestedSubAgents == Len(stack) <= 1

\* the results of conduct_research calls with a non-empty content
Researched(toolResults) ==
    SelectSeq(toolResults, LAMBDA r : r.name = "conduct_research" /\ r.content # "")

\* --------------------------------------------------------------- C27
\* C27 as stated: when the supervisor's tool calls have been executed, every
\* conduct_research result with a non-empty content adds one entry to the
\* notes and one "Research on:" entry to the raw notes, whatever other calls
\* the response contains; the notes collected are those of the result
\* returned.
C27_EveryResearchCollected ==
    /\ [][(/\ AtSupervisor
           /\ Len(supResults) = Len(supCalls)
           /\ timer' = timer)
          => (/\ allNotes' = allNotes \o
                    [k \in 1..Len(Researched(supResults)) |->
                        Researched(supResults)[k].content]
              /\ allRawNotes' = allRawNotes \o
                    [k \in 1..Len(Researched(supResults)) |->
                        "Research on: " \o Researched(supResults)[k].content])]_vars
    /\ [](result.success =>
             (result.notes = allNotes /\ result.raw_notes = allRawNotes))

\* the same for the responses in which no research_complete call comes
\* before a conduct_research call
C27_CollectedUnlessCompleteFirst ==
    /\ [][(/\ AtSupervisor
           /\ Len(supResults) = Len(supCalls)
           /\ \A k, l \in 1..Len(supResults) :
                 (supResults[k].name = "research_complete"
                  /\ supResults[l].name = "conduct_research") => l < k
           /\ timer' = timer)
          => (/\ allNotes' = allNotes \o
                    [k \in 1..Len(Researched(supResults)) |->
                        Researched(supResults)[k].content]
              /\ allRawNotes' = allRawNotes \o
                    [k \in 1..Len(Researched(supResults)) |->
                        "Research on: " \o Researched(supResults)[k].content])]_vars
    /\ [](result.success =>
             (result.notes = allNotes /\ result.raw_notes = allRawNotes))

\* ------------------------------------------------- the sub-agent's loop
\* in this step the run on top of the stack gets the answer of its
\* tool-enabled LM call
AgentAnswers ==
    /\ stack # <<>>
    /\ Top.pcA = "call_ai"
    /\ timer' = timer
    /\ stack' # stack

\* in this step the run on top of the stack returns to its caller
Popped == Len(stack') = Len(stack) - 1

\* ... and this is the summary it returns
Returned ==
    IF Len(stack) > 1
    THEN LET toolResults == stack'[Len(stack) - 1].results
         IN  toolResults[Len(toolResults)].content
    ELSE IF pc = "sup_tools"
         THEN supResults'[Len(supResults')].content
         ELSE allNotes'[Len(allNotes')]

\* C28: a sub-agent run returns the answer of its LM call as the summary
\* only if web_search or scholar_search has been invoked earlier in the run
\* or at least two iterations are completed; an answer without tool call
\* that is not returned is followed by a search of the topic restricted to
\* the source duckduckgo, whose formatted result is pushed as a tool message
\* followed by the user prompt that asks for the summary, and the loop goes
\* on with the next iteration.
C28_SummaryOnlyAfterSearch ==
    /\ [][(AgentAnswers /\ stack'[Len(stack)].pcA = "return")
             => (\/ Top.hasSearchedWeb
                 \/ Top.hasSearchedScholar
                 \/ Top.agentIterations >= 2)]_vars
    /\ [][(AgentAnswers /\ stack'[Len(stack)].calls = <<>>
                         /\ stack'[Len(stack)].pcA # "return")
             => stack'[Len(stack)].pcA = "forced_search"]_vars
    /\ [][(stack # <<>> /\ Top.pcA = "forced_search" /\ timer' = timer)
             => (/\ Len(stack') = Len(stack)
                 /\ stack'[Len(stack)].forcedSearch.sources = <<"duckduckgo">>
                 /\ \E r \in SearchResultKinds :
                       stack'[Len(stack)].pushed =
                          <<[role |-> "tool",
                             content |-> formatSearchResults(r, "Web"),
                             tool_call_id |-> "forced_search",
                             name |-> "web_search"],
                            [role |-> "user",
                             content |-> "Based on the search results above, provide a comprehensive summary with analysis and insights."]>>
                 /\ stack'[Len(stack)].agentIterations = Top.agentIterations + 1
                 /\ stack'[Len(stack)].pcA = "call_ai")]_vars

\* a run whose first answer had no tool call: the forced search has been
\* made and the run is about to ask the LM again
C28_Witness ==
    /\ stack # <<>>
    /\ Top.agentIterations = 1
    /\ Top.pcA = "call_ai"
    /\ ~Top.hasSearchedWeb
    /\ Len(Top.pushed) = 2
    /\ Top.pushed[1].tool_call_id = "forced_search"

\* the tool calls of an answer that has no invocation in any of the three
\* syntaxes: the web_search that parseToolCalls makes up from its text
Synthesized(toolCalls) ==
    toolCalls # <<>> /\ toolCalls[1].id.prefix = "call_forced_"

\* C29 as stated: in a sub-agent run where web_search or scholar_search has
\* been invoked, an LM answer without tool invocation in any of the three
\* syntaxes ends the run and is returned as the summary, so that the run
\* goes on to execute tool calls only after an answer that has an invocation.
C29_AnswerWithoutInvocationEndsRun ==
    [][(AgentAnswers /\ (Top.hasSearchedWeb \/ Top.hasSearchedScholar))
          => (\/ /\ stack'[Len(stack)].pcA = "return"
                 /\ stack'[Len(stack)].summary \in {"", "LM text"}
              \/ /\ stack'[Len(stack)].pcA = "exec_tools"
                 /\ ~Synthesized(stack'[Len(stack)].calls))]_vars

\* C29, amended: in a sub-agent run where web_search or scholar_search has
\* been invoked, an LM answer from which parseToolCalls yields no tool call
\* (no invocation in any of the three syntaxes and no web_search made up
\* from a text that mentions research or search) ends the run and is
\* returned as the summary; any other answer has its tool calls executed.
C29_AnswerWithoutToolCallEndsRun ==
    [][(AgentAnswers /\ (Top.hasSearchedWeb \/ Top.hasSearchedScholar))
          => (\/ /\ stack'[Len(stack)].pcA = "return"
                 /\ stack'[Len(stack)].summary \in {"", "LM text"}
                 /\ stack'[Len(stack)].calls = <<>>
              \/ /\ stack'[Len(stack)].pcA = "exec_tools"
                 /\ Len(stack'[Len(stack)].calls) > 0)]_vars

\* a run that has searched the web in its first iteration and whose second
\* answer, without tool call, is being returned
C29_Witness ==
    /\ stack # <<>>
    /\ Top.pcA = "return"
    /\ Top.hasSearchedWeb
    /\ Top.agentIterations = 1
    /\ Top.calls = <<>>
    /\ Top.summary = "LM text"

\* C30: a sub-agent run makes at most maxAgentIterations (5) tool-enabled
\* LM calls; it goes to the compression exactly when 5 iterations are
\* completed, none of which ended with an accepted answer; it returns
\* either an accepted answer without tool call or, after the 5 iterations,
\* what its one compression call gave: the LM's text, or the fixed text of
\* the catch when that call threw.
C30_BoundedRun ==
    /\ [](\A i \in 1..Len(stack) :
             /\ stack[i].aiCalls <= maxAgentIterations
             /\ stack[i].pcA \in {"compress", "compressed"}
                   <=> stack[i].agentIterations = maxAgentIterations)
    /\ [][(stack # <<>> /\ Top.pcA = "compress" /\ timer' = timer /\ stack' # stack)
             => (/\ Len(stack') = Len(stack)
                 /\ stack'[Len(stack)].pcA = "compressed"
                 /\ stack'[Len(stack)].aiCalls = maxAgentIterations)]_vars
    /\ [][(Popped /\ timer' = timer)
             => (\/ /\ Top.pcA = "return"
                    /\ Top.calls = <<>>
                    /\ Top.aiCalls = Top.agentIterations + 1
                    /\ Returned = Top.summary
                 \/ /\ Top.pcA = "compressed"
                    /\ Top.aiCalls = maxAgentIterations
                    /\ Returned = IF Top.compressed = "throw"
                                  THEN ErrorText
                                  ELSE Top.compressed)]_vars

\* a run whose five iterations are completed and whose compression call
\* has thrown
C30_Witness ==
    /\ stack # <<>>
    /\ Top.pcA = "compressed"
    /\ Top.agentIterations = maxAgentIterations
    /\ Top.aiCalls = maxAgentIterations
    /\ Top.compressed = "throw"

\* --------------------------------------------------------------- C31
\* the run has pushed the reminder to use both searches since its last LM call
Reminded(frame) ==
    \E k \in 1..Len(frame.pushed) : frame.pushed[k] = SearchReminder

\* C31 as stated: the reminder that demands both web_search and
\* scholar_search is pushed only when neither of the two has been invoked
\* so far in the run.
C31_ReminderOnlyWithoutAnySearch ==
    \A i \in 1..Len(stack) :
        Reminded(stack[i]) =>
            (~stack[i].hasSearchedWeb /\ ~stack[i].hasSearchedScholar)

\* C31, amended: the reminder is pushed only when at least one of
\* web_search and scholar_search has not been invoked so far in the run,
\* and only after the tool results of the third iteration, so at most once
\* per run.
C31_ReminderOnceWhenASearchIsMissing ==
    \A i \in 1..Len(stack) :
        Reminded(stack[i]) =>
            (/\ ~stack[i].hasSearchedWeb \/ ~stack[i].hasSearchedScholar
             /\ stack[i].agentIterations = 3
             /\ stack[i].pcA = "call_ai"
             /\ stack[i].pushed = <<SearchReminder>>)

\* a run that has searched the web but not the scholar sources in its first
\* three iterations and has been reminded
C31_Witness ==
    /\ stack # <<>>
    /\ Reminded(Top)
    /\ Top.hasSearchedWeb
    /\ ~Top.hasSearchedScholar
    /\ Top.agentIterations = 3

\* --------------------------------------------------------------- C32
\* C32: a parsed tool call that lacks the argument its tool requires is
\* rejected and not dispatched; in particular no sub-agent run is started
\* by a conduct_research call without research_topic, so that every run in
\* progress has a topic.
C32_MissingArgumentRejected ==
    \A i \in 1..Len(stack) : stack[i].topic # "undefined"

\* --------------------------------------------------------------- C33
\* what the adapters whose call was fulfilled have found
FulfilledResults(promises) ==
    Flat([i \in 1..Len(promises) |->
            IF promises[i].status = "resolved" THEN promises[i].results ELSE <<>>])

\* C33: searchScholar and searchNews do not throw when the call of one
\* adapter throws, and return the combined results of the other adapters.
C33_ScholarFailureAbsorbed ==
    scholar.returned =>
        (/\ ~scholar.threw
         /\ scholar.results = weightedCombine(FulfilledResults(scholar.promises)))

\* --------------------------------------------------------------- C34
\* C34: once the timer of options.timeout (10000 ms by default) has fired
\* with performSearch still pending, the token performSearch was given is
\* cancelled, whether or not the caller supplied a signal, and search
\* returns [] and does not throw; an error of performSearch other than the
\* cancellation is thrown to the caller.
C34_TimeoutCancels ==
    /\ base.timeoutId = "fired" =>
          (/\ TokenAborted(base)
           /\ base.returned => (~base.threw /\ base.results = <<>>))
    /\ (base.returned /\ base.perform.status = "Error") => base.threw

\* C34 without a caller's signal: the same, for the calls whose options
\* carry no signal.
C34_TimeoutCancelsOwnToken ==
    base.options.signal = "none" => C34_TimeoutCancels

\* --------------------------------------------------------------- C35
EndpointCalled(endpoint) == \E k \in 1..Len(ddg.called) : ddg.called[k] = endpoint

\* the endpoints are called in the order instant answer, HTML, lite
InEndpointOrder ==
    \A j, k \in 1..Len(ddg.called) :
        j < k => <<ddg.called[j], ddg.called[k]>> \in
                    {<<"instant", "html">>, <<"instant", "lite">>, <<"html", "lite">>}

\* C35: performSearch calls its endpoints in the order instant answer,
\* HTML, lite; the HTML endpoint only when the instant-answer call has
\* returned no result, the lite endpoint only after the HTML endpoint has
\* been called and has failed.
C35_EndpointFallback ==
    /\ InEndpointOrder
    /\ EndpointCalled("html") =>
          (ddg.instant.ok
           /\ searchInstantAnswer(ddg.instant, ddg.maxResults) = <<>>)
    /\ EndpointCalled("lite") => (EndpointCalled("html") /\ ~ddg.html.ok)

\* C35 without its last part: the lite endpoint is called only after a
\* failure of the instant-answer call, or of the HTML call made because
\* the instant answer had no result.
C35_LiteAfterAFailure ==
    /\ InEndpointOrder
    /\ EndpointCalled("html") =>
          (ddg.instant.ok
           /\ searchInstantAnswer(ddg.instant, ddg.maxResults) = <<>>)
    /\ EndpointCalled("lite") => (~ddg.instant.ok \/ (EndpointCalled("html") /\ ~ddg.html.ok))

\* --------------------------------------------------------------- C36
\* x is better than y on both counts: a strictly higher relevanceScore and
\* a strictly longer snippet
Dominates(x, y) ==
    /\ FracLess(y.relevanceScore, x.relevanceScore)
    /\ Len(x.snippet) > Len(y.snippet)

\* C36: of the entries with one normalized URL deduplicateResults keeps a
\* preferred one: none of the entries it was given for that URL has both a
\* strictly higher relevanceScore and a strictly longer snippet than the
\* entry in the list it returns.
C36_KeptEntryNotDominated ==
    dedup.pass >= 1 =>
        \A k \in 1..Len(dedup.once) : \A i \in 1..Len(dedup.xs) :
            normalizeUrl(dedup.xs[i].url) = normalizeUrl(dedup.once[k].url)
                => ~Dominates(dedup.xs[i], dedup.once[k])

\* C36 for two entries: when only two entries share a normalized URL, the
\* one that is dropped does not dominate the one that is kept.
C36_PairNotDominated ==
    (dedup.pass >= 1 /\ Len(dedup.xs) = 2) =>
        \A k \in 1..Len(dedup.once) : \A i \in 1..Len(dedup.xs) :
            normalizeUrl(dedup.xs[i].url) = normalizeUrl(dedup.once[k].url)
                => ~Dominates(dedup.xs[i], dedup.once[k])

\* --------------------------------------------------------------- C37
\* later is earlier, or earlier with one more message, which answers the
\* first call of calls that earlier leaves unanswered
Extends(later, earlier, calls) ==
    \/ later = earlier
    \/ /\ Len(later) = Len(earlier) + 1
       /\ SubSeq(later, 1, Len(earlier)) = earlier
       /\ later[Len(later)].tool_call_id = calls[Len(earlier) + 1].id

\* the sub-agent run stack[f] was started by the first unanswered call of
\* the level below it, a conduct_research call (or by forced research)
StartedByNextCall(f) ==
    IF f > 1
    THEN /\ Len(stack[f - 1].results) < Len(stack[f - 1].calls)
         /\ stack[f - 1].calls[Len(stack[f - 1].results) + 1].name = "conduct_research"
    ELSE \/ pc = "sup_forced"
         \/ /\ pc = "sup_tools"
            /\ Len(supResults) < Len(supCalls)
            /\ supCalls[Len(supResults) + 1].name = "conduct_research"

\* C37: the tool calls of one response are executed one at a time in the
\* order the parser returned them: the only call under way is the first
\* unanswered one, and each step adds at most one tool message, at the end
\* of the results, for that call.
C37_SerialInParserOrder ==
    /\ [](\A f \in 1..Len(stack) : StartedByNextCall(f))
    /\ [][supCalls' = supCalls => Extends(supResults', supResults, supCalls)]_vars
    /\ [][\A f \in 1..Len(stack) :
             (f <= Len(stack') /\ stack'[f].calls = stack[f].calls)
                => Extends(stack'[f].results, stack[f].results, stack[f].calls)]_vars

\* the supervisor's response had two calls: the first is answered, the
\* second, a conduct_research, has its sub-agent run under way
C37_Witness ==
    /\ pc = "sup_tools"
    /\ Len(supCalls) = 2
    /\ Len(supResults) = 1
    /\ supCalls[2].name = "conduct_research"
    /\ stack # <<>>

\* --------------------------------------------------------------- C38
\* every message of results carries the id of a call of calls, and no two
\* of them the same id
AnswersCallsOnce(results, calls) ==
    /\ \A k \in 1..Len(results) :
          \E c \in 1..Len(calls) : calls[c].id = results[k].tool_call_id
    /\ \A j, k \in 1..Len(results) :
          j < k => results[j].tool_call_id # results[k].tool_call_id

\* the tool-role messages the sub-agent loop has pushed itself
PushedToolMessages(frame) == SelectSeq(frame.pushed, LAMBDA m : m.role = "tool")

\* C38: every tool-role message of a supervisor or sub-agent conversation
\* carries the id of a ToolCall of the assistant message it answers, and no
\* two tool-role messages carry the same id (stated over the messages
\* pushed since the last LM call of the conversation).
C38_ToolMessagesAnswerCalls ==
    /\ AnswersCallsOnce(supResults, supCalls)
    /\ \A f \in 1..Len(stack) :
          /\ AnswersCallsOnce(stack[f].results, stack[f].calls)
          /\ \A k \in 1..Len(PushedToolMessages(stack[f])) :
                \E c \in 1..Len(stack[f].calls) :
                   stack[f].calls[c].id = PushedToolMessages(stack[f])[k].tool_call_id

\* C38 for the messages of executeToolCalls alone.
C38_ExecutedCallsAnswered ==
    /\ AnswersCallsOnce(supResults, supCalls)
    /\ \A f \in 1..Len(stack) : AnswersCallsOnce(stack[f].results, stack[f].calls)

\* --------------------------------------------------------------- C39
\* C39: once phase 2 is over, the state's research_brief is a non-empty
\* string, whatever the phase-2 LM call answered (a JSON value, a text
\* that is not JSON, or a throwing call).
C39_BriefNonEmpty ==
    pc \in {"supervisor", "sup_tools", "sup_forced", "report"} =>
        state.research_brief \notin {"", "undefined"}

\* the part of C39 that the code keeps: a throwing phase-2 call yields the
\* template brief, and a text that is not JSON becomes the brief as it is
C39_FallbackBriefs ==
    [][(pc = "brief" /\ pc' = "supervisor") =>
          /\ answer = Throws => state'.research_brief = "Research Brief: query"
          /\ answer.kind = "text" => state'.research_brief = answer.content]_vars

\* --------------------------------------------------------------- C40
\* the raw notes are the lineage of the notes: as many entries, the i-th
\* being "Research on: " followed by the i-th note, or "Forced research
\* on: " followed by one of the forced topics of the query
Lineage(notes, raw_notes) ==
    /\ Len(notes) = Len(raw_notes)
    /\ \A i \in 1..Len(notes) :
          \/ raw_notes[i] = "Research on: " \o notes[i]
          \/ \E k \in 1..Len(generateForcedResearchTopics(query)) :
                raw_notes[i] =
                    "Forced research on: " \o generateForcedResearchTopics(query)[k]

\* C40: in every state of the supervisor loop, and in every successful
\* result, notes and raw_notes have the same length and the i-th raw note
\* is the lineage string ("Research on:" or "Forced research on:") of the
\* i-th note.
C40_RawNotesAreLineage ==
    /\ Lineage(allNotes, allRawNotes)
    /\ Lineage(state.notes, state.raw_notes)
    /\ result.success => Lineage(result.notes, result.raw_notes)

C40_Witness ==
    /\ result.success
    /\ Len(result.notes) = 2
    /\ result.raw_notes[1] = "Research on: " \o result.notes[1]

C40_WitnessForced ==
    /\ result.success
    /\ Len(result.notes) >= 2
    /\ result.raw_notes[1] =
          "Forced research on: " \o generateForcedResearchTopics(query)[1]

====
